---- MODULE Spec2Model ----
(***************************************************************************)
(* Attendance ledger of sistema-de-asistencia: the daily attendance sheet  *)
(* (src/components/AttendanceSheet.tsx), the meeting attendance sheet      *)
(* (src/components/MeetingAttendanceSheet.tsx) and the classroom           *)
(* visibility filter (src/components/Dashboard.tsx), over the remote       *)
(* tables they read and write.                                             *)
(*                                                                         *)
(* Dates are day numbers (an ISO date string 'YYYY-MM-DD' compares as its  *)
(* day number), a month is DaysPerMonth consecutive days.  The remote      *)
(* store answers each call atomically at the moment of its response.       *)
(***************************************************************************)
EXTENDS Integers, FiniteSets, Sequences, TLC

\* ------------------------------------------------------------------ bounds
MaxDay == 2          \* dates are 0..MaxDay
StartDay == 1        \* the UTC date at which a behaviour starts
DaysPerMonth == 2    \* days of one calendar month
MaxLoads == 1        \* init() runs in flight at once
MaxMeetings == 1        \* meetings created in a run
MaxClassrooms == 2      \* rows of the classrooms table
MaxReportDay == 2       \* the stored rows of the report runs are dated 0..MaxReportDay
MaxRows == 3            \* stored rows of the classroom at the start of a report run
MaxBimesterDay == 4     \* the dates of a bimester run are 0..MaxBimesterDay
MaxBimesterRows == 2    \* stored rows at the start of a bimester run

\* ------------------------------------------------------------- value sets
Students == {"s1", "s2"}
Users == {"u1", "u2"}
Zones == {"west", "utc", "east"}
PRESENT == "PRESENT"
LATE == "LATE"
ABSENT == "ABSENT"
JUSTIFIED == "JUSTIFIED"
AttendanceStatus == {PRESENT, LATE, ABSENT, JUSTIFIED}
\* the status buttons the model presses
StatusButtons == {PRESENT, ABSENT}
FamilyMemberType == {"padre", "madre", "otro_familiar"}
NONE == "NONE"
ClassroomId == "c1"

Days == 0..MaxDay
\* the store's clock values at which a commit can happen
CommitTimes == {0, 1}
MonthOf(d) == d \div DaysPerMonth
FirstDayOf(m) == m * DaysPerMonth
LastDayOf(m) == m * DaysPerMonth + DaysPerMonth - 1

\* statusMap of saveAttendance
StatusCode(s) ==
    CASE s = PRESENT -> 1
      [] s = LATE -> 2
      [] s = ABSENT -> 3
      [] s = JUSTIFIED -> 4

\* profiles.full_name of a staff id
FullName(u) == IF u = "u1" THEN "Ana" ELSE "Luis"

NoInfo == [name |-> "", time |-> -1]
NoToast == [type |-> "none", msg |-> "none"]
EmptyMap == [s \in Students |-> NONE]

\* an endDate that is '' or undefined
NoDate == -1
\* the filters of a Reports list that is not mounted
NoFilters == [startDate |-> NoDate, endDate |-> NoDate, range |-> "Día"]

\* Object.keys(map)
Keys(map) == {s \in Students : map[s] # NONE}

VARIABLES
    \* environment
    tz,                  \* time zone of the browser
    utcDate,             \* the UTC date of "now"
    clock,               \* the store's clock (one tick per commit)
    enrolled,            \* students table: the students of the classroom
    staff,               \* profiles table: the staff who sign in
    attendanceTable,     \* attendance table: a set of rows
    meetings,            \* meetings table: a set of rows
    meetingAttendance,   \* meeting_attendance table: a set of rows
    classroomRows,       \* classrooms table: a sequence of rows
    \* App
    view,                \* the route shown
    userId,              \* currentUser.id
    user,                \* currentUser: role and assignments
    selectedMeeting,     \* the meeting handed to the meeting routes
    toast,               \* the toast the last step raised (showToast)
    \* AttendanceSheet state
    today, selectedDate, calendarMonth, showCalendar, datesWithAttendance,
    students, attendance, notes, loading, saving, filledByInfo,
    \* MeetingAttendanceSheet state, with today, selectedDate, students,
    \* attendance, loading and saving above
    activeMeeting,
    \* Dashboard and Meetings state
    assignedClassrooms, classrooms,
    \* calls in flight
    loads,               \* init() runs of the load effect
    dateQueries,         \* fetchDatesWithAttendance calls
    saves,               \* upsert calls
    \* history
    ev,                  \* what the last step was, when it was a save or a load
    latest,              \* per date, who committed the last save and when
    lastRecords,         \* the payload of the last committed save
    \* App state of the report routes
    selectedClassroom,   \* the classroom handed to the classroom routes
    reportConfig,        \* date, range and endDate handed to the detail report
    \* Reports state
    appliedFilters,      \* startDate, endDate and range of the list
    classroomStats,      \* the classrooms of the list, with their counts
    \* ClassroomReportDetail state
    detailStudents, attendanceRecords,
    \* BimesterReport state
    bimestres, selectedBimestre, bimesterStudents, bimesterAttendance,
    bimestreRows         \* bimestres table: a sequence of rows

envVars == <<tz, utcDate, clock, enrolled, staff, attendanceTable>>
appVars == <<view, userId>>
navVars == <<today, selectedDate, calendarMonth, showCalendar, datesWithAttendance>>
setVars == <<students, attendance, notes, loading, saving, filledByInfo>>
flightVars == <<loads, dateQueries, saves>>
meetVars == <<meetings, meetingAttendance, selectedMeeting, activeMeeting>>
dashVars == <<user, classroomRows, assignedClassrooms, classrooms>>
bimesterVars == <<bimestreRows, bimestres, selectedBimestre, bimesterStudents,
                  bimesterAttendance>>
reportVars == <<selectedClassroom, reportConfig, appliedFilters, classroomStats,
                detailStudents, attendanceRecords, bimesterVars>>
vars == <<envVars, appVars, navVars, setVars, flightVars, toast, ev, latest,
          lastRecords, meetVars,
          dashVars, reportVars>>

\* -------------------------------------------------------- dates and zones
\* new Date(y, m, d).toISOString().split('T')[0]: the UTC date of the local
\* midnight of local day d.  East of Greenwich that is the day before.
LocalMidnightToIso(d) == IF tz = "east" THEN d - 1 ELSE d

\* the local date(s) "now" can have while the UTC date is u
LocalDates(u) ==
    CASE tz = "west" -> {u - 1, u}
      [] tz = "utc" -> {u}
      [] tz = "east" -> {u, u + 1}


\* ------------------------------------------------------------------ store
SameKey(x, r) == x.student_id = r.student_id /\ x.date = r.date

\* faulty variant: the conflicting row is written anew, created_at included
UpsertRowTouch(tbl, r, t) ==
    {[student_id |-> r.student_id, classroom_id |-> r.classroom_id,
      date |-> r.date, status |-> r.status,
      attendance_type_id |-> r.attendance_type_id, notes |-> r.notes,
      created_by |-> r.created_by, created_at |-> t]}

\* One row of .upsert(records, { onConflict: 'student_id,date' }): a row with
\* the key takes the columns of the payload and keeps created_at (the payload
\* has no created_at); a new row gets created_at = t.
UpsertRow(tbl, r, t) ==
    IF \E x \in tbl : SameKey(x, r)
    THEN {[x EXCEPT !.classroom_id = r.classroom_id, !.status = r.status,
                    !.attendance_type_id = r.attendance_type_id,
                    !.notes = r.notes, !.created_by = r.created_by]
            : x \in {y \in tbl : SameKey(y, r)}}
    ELSE {[student_id |-> r.student_id, classroom_id |-> r.classroom_id,
           date |-> r.date, status |-> r.status,
           attendance_type_id |-> r.attendance_type_id, notes |-> r.notes,
           created_by |-> r.created_by, created_at |-> t]}

\* faulty variant: a plain insert, the conflict key ignored
UpsertInsertOnly(tbl, recs, t) ==
    tbl \cup {[student_id |-> r.student_id, classroom_id |-> r.classroom_id,
               date |-> r.date, status |-> r.status,
               attendance_type_id |-> r.attendance_type_id, notes |-> r.notes,
               created_by |-> r.created_by, created_at |-> t] : r \in recs}

\* faulty variant: the call commits one record of the payload and stops
UpsertPartial(tbl, recs, t) ==
    IF recs = {} THEN tbl
    ELSE LET r == CHOOSE x \in recs : TRUE
         IN  {x \in tbl : ~SameKey(x, r)} \cup UpsertRow(tbl, r, t)

\* the whole upsert call, one statement: every record of the payload
Upsert(tbl, recs, t) ==
    {x \in tbl : ~\E r \in recs : SameKey(x, r)}
        \cup UNION {UpsertRow(tbl, r, t) : r \in recs}

\* .from('attendance').select(...).eq('classroom_id', id).eq('date', date)
RowsOf(tbl, d) == {x \in tbl : x.classroom_id = ClassroomId /\ x.date = d}

\* ------------------------------------------------------- AttendanceSheet
NoEv == [op |-> "none", ok |-> FALSE, date |-> 0, records |-> {},
         changed |-> {}, repeat |-> FALSE, live |-> FALSE,
         meeting |-> 0, before |-> {}, deleted |-> FALSE, inserts |-> 0]

\* a step that raises no toast and is neither a save nor a load
Quiet == toast' = NoToast /\ ev' = NoEv /\ UNCHANGED <<latest, lastRecords>>

OnSheet == view = "ATTENDANCE_SHEET"
isToday == selectedDate = today

\* records of saveAttendance: one per entry of the in-memory set
Records ==
    {[student_id |-> s, classroom_id |-> ClassroomId, date |-> selectedDate,
      status |-> attendance[s], attendance_type_id |-> StatusCode(attendance[s]),
      notes |-> notes[s], created_by |-> userId] : s \in Keys(attendance)}

\* the load effect on [classroom, selectedDate]: init() starts with
\* setLoading(true) and fetchStudents()
StartLoad(d) ==
    /\ loads' = loads \cup {[date |-> d, phase |-> "students"]}
    /\ loading' = TRUE

\* setSelectedDate(d): a changed date re-renders and runs the load effect
SetSelectedDate(d) ==
    /\ selectedDate' = d
    /\ IF d # selectedDate
       THEN Cardinality(loads) < MaxLoads /\ StartLoad(d)
       ELSE UNCHANGED <<loads, loading>>

\* setCalendarMonth(m): always a new Date object, so the marked-dates effect
\* on [classroom, calendarMonth] runs again
SetCalendarMonth(m) ==
    /\ calendarMonth' = m
    /\ dateQueries' = dateQueries \cup {m}

\* mounting the sheet (App route /asistencia after onSelectClassroom); the
\* next session starts once the store has answered the calls of the last
OpenSheet(u) ==
    /\ view = "DASHBOARD"
    /\ saves = {}
    /\ view' = "ATTENDANCE_SHEET"
    /\ userId' = u
    /\ today' = utcDate
    /\ selectedDate' = utcDate
    /\ \E ld \in LocalDates(utcDate) : calendarMonth' = MonthOf(ld)
    /\ dateQueries' = {calendarMonth'}
    /\ showCalendar' = FALSE
    /\ datesWithAttendance' = {}
    /\ students' = {}
    /\ attendance' = EmptyMap
    /\ notes' = EmptyMap
    /\ loading' = TRUE
    /\ saving' = FALSE
    /\ filledByInfo' = NoInfo
    /\ loads' = {[date |-> utcDate, phase |-> "students"]}
    /\ Quiet
    /\ UNCHANGED <<envVars, saves>>
    /\ UNCHANGED <<meetVars, dashVars, reportVars>>

\* the sheet unmounts: calls in flight are answered to a dead instance
Unmount ==
    /\ view' = "DASHBOARD"
    /\ today' = 0
    /\ selectedDate' = 0
    /\ calendarMonth' = 0
    /\ showCalendar' = FALSE
    /\ datesWithAttendance' = {}
    /\ students' = {}
    /\ attendance' = EmptyMap
    /\ notes' = EmptyMap
    /\ loading' = FALSE
    /\ saving' = FALSE
    /\ filledByInfo' = NoInfo
    /\ loads' = {}
    /\ dateQueries' = {}

\* another staff member mounts the sheet in a browser of their own while the
\* upsert calls of the sheet followed so far are unanswered: from here on the
\* sheet followed is theirs, and the calls of the other are answered to the
\* store alone
OpenSheetBeside(u) ==
    /\ view = "DASHBOARD"
    /\ saves # {}
    /\ u \notin {q.by : q \in saves}
    /\ view' = "ATTENDANCE_SHEET"
    /\ userId' = u
    /\ today' = utcDate
    /\ selectedDate' = utcDate
    /\ \E ld \in LocalDates(utcDate) : calendarMonth' = MonthOf(ld)
    /\ dateQueries' = {calendarMonth'}
    /\ showCalendar' = FALSE
    /\ datesWithAttendance' = {}
    /\ students' = {}
    /\ attendance' = EmptyMap
    /\ notes' = EmptyMap
    /\ loading' = TRUE
    /\ saving' = FALSE
    /\ filledByInfo' = NoInfo
    /\ loads' = {[date |-> utcDate, phase |-> "students"]}
    /\ Quiet
    /\ UNCHANGED <<envVars, saves>>
    /\ UNCHANGED <<meetVars, dashVars, reportVars>>

\* onBack / onViewReport buttons
LeaveSheet ==
    /\ OnSheet
    /\ Unmount
    /\ saves' = {[q EXCEPT !.live = FALSE] : q \in saves}
    /\ Quiet
    /\ UNCHANGED <<envVars, userId>>
    /\ UNCHANGED <<meetVars, dashVars, reportVars>>

goToPreviousDay ==
    /\ OnSheet
    /\ LET newDate == LocalMidnightToIso(selectedDate - 1)
       IN  /\ newDate >= 0
           /\ SetSelectedDate(newDate)
           /\ today' = IF newDate # selectedDate THEN utcDate ELSE today
    /\ Quiet
    /\ UNCHANGED <<envVars, appVars, calendarMonth, showCalendar,
                   datesWithAttendance, students, attendance, notes, saving,
                   filledByInfo, dateQueries, saves>>
    /\ UNCHANGED <<meetVars, dashVars, reportVars>>

goToNextDay ==
    /\ OnSheet
    /\ ~isToday                                   \* disabled={isToday}
    /\ LET newDate == LocalMidnightToIso(selectedDate + 1)
       IN  /\ newDate <= today                    \* Don't go past today
           /\ SetSelectedDate(newDate)
           /\ today' = IF newDate # selectedDate THEN utcDate ELSE today
    /\ Quiet
    /\ UNCHANGED <<envVars, appVars, calendarMonth, showCalendar,
                   datesWithAttendance, students, attendance, notes, saving,
                   filledByInfo, dateQueries, saves>>
    /\ UNCHANGED <<meetVars, dashVars, reportVars>>

goToToday ==
    /\ OnSheet
    /\ SetSelectedDate(today)
    /\ \E ld \in LocalDates(utcDate) : SetCalendarMonth(MonthOf(ld))
    /\ showCalendar' = FALSE
    /\ today' = utcDate
    /\ Quiet
    /\ UNCHANGED <<envVars, appVars, datesWithAttendance, students, attendance,
                   notes, saving, filledByInfo, saves>>
    /\ UNCHANGED <<meetVars, dashVars, reportVars>>

\* the "Elegir Fecha" button: opening syncs the month to the selected date
ToggleCalendar ==
    /\ OnSheet
    /\ showCalendar' = ~showCalendar
    /\ IF ~showCalendar
       THEN SetCalendarMonth(MonthOf(selectedDate))
       ELSE UNCHANGED <<calendarMonth, dateQueries>>
    /\ today' = utcDate
    /\ Quiet
    /\ UNCHANGED <<envVars, appVars, selectedDate, datesWithAttendance, setVars,
                   loads, saves>>
    /\ UNCHANGED <<meetVars, dashVars, reportVars>>

CalendarPrevMonth ==
    /\ OnSheet /\ showCalendar
    /\ calendarMonth > 0
    /\ SetCalendarMonth(calendarMonth - 1)
    /\ today' = utcDate
    /\ Quiet
    /\ UNCHANGED <<envVars, appVars, selectedDate, showCalendar,
                   datesWithAttendance, setVars, loads, saves>>
    /\ UNCHANGED <<meetVars, dashVars, reportVars>>

CalendarNextMonth ==
    /\ OnSheet /\ showCalendar
    /\ \E ld \in LocalDates(utcDate) : calendarMonth + 1 <= MonthOf(ld)
    /\ SetCalendarMonth(calendarMonth + 1)
    /\ today' = utcDate
    /\ Quiet
    /\ UNCHANGED <<envVars, appVars, selectedDate, showCalendar,
                   datesWithAttendance, setVars, loads, saves>>
    /\ UNCHANGED <<meetVars, dashVars, reportVars>>

\* faulty variant: the day buttons without the isFuture test
PickDayNoFutureTest(d) ==
    /\ OnSheet /\ showCalendar
    /\ d \in FirstDayOf(calendarMonth)..LastDayOf(calendarMonth)
    /\ LET date == LocalMidnightToIso(d)
       IN  /\ date >= 0 /\ date <= MaxDay
           /\ SetSelectedDate(date)
    /\ showCalendar' = FALSE
    /\ today' = utcDate
    /\ Quiet
    /\ UNCHANGED <<envVars, appVars, calendarMonth, datesWithAttendance,
                   students, attendance, notes, saving, filledByInfo,
                   dateQueries, saves>>
    /\ UNCHANGED <<meetVars, dashVars, reportVars>>

\* a day button of the calendar: local day d of the month shown
PickDay(d) ==
    /\ OnSheet /\ showCalendar
    /\ d \in FirstDayOf(calendarMonth)..LastDayOf(calendarMonth)
    /\ LET date == LocalMidnightToIso(d)
           isFuture == date > today
       IN  /\ ~isFuture
           /\ date >= 0
           /\ SetSelectedDate(date)
    /\ showCalendar' = FALSE
    /\ today' = utcDate
    /\ Quiet
    /\ UNCHANGED <<envVars, appVars, calendarMonth, datesWithAttendance,
                   students, attendance, notes, saving, filledByInfo,
                   dateQueries, saves>>
    /\ UNCHANGED <<meetVars, dashVars, reportVars>>

\* midnight UTC passes
Tick ==
    /\ utcDate < MaxDay
    /\ utcDate' = utcDate + 1
    /\ UNCHANGED <<tz, clock, enrolled, staff, attendanceTable, appVars, navVars,
                   setVars, flightVars>>
    /\ Quiet
    /\ UNCHANGED <<meetVars, dashVars, reportVars>>


\* ------------------------------------------------------------ load effect
\* fetchStudents answers; init() goes on to fetchExistingAttendance(date).
\* A failure is caught and logged, the students kept as they were.
StudentsResponse(l, ok) ==
    /\ OnSheet
    /\ l \in loads /\ l.phase = "students"
    /\ students' = IF ok THEN enrolled ELSE students
    /\ loads' = (loads \ {l}) \cup {[l EXCEPT !.phase = "attendance"]}
    /\ today' = IF students' # students THEN utcDate ELSE today
    /\ Quiet
    /\ UNCHANGED <<envVars, appVars, selectedDate, calendarMonth, showCalendar,
                   datesWithAttendance, attendance, notes, loading, saving,
                   filledByInfo, dateQueries, saves>>
    /\ UNCHANGED <<meetVars, dashVars, reportVars>>

\* the attendanceMap / notesMap built from the rows of a response
MapOf(data, col) ==
    [s \in Students |->
        IF \E x \in data : x.student_id = s
        THEN (CHOOSE x \in data : x.student_id = s)[col]
        ELSE NONE]

\* faulty variant: fetchExistingAttendance without the else branch, so an
\* answer with no rows leaves the set, the notes and the provenance as held
AttendanceResponseNoElse(l, ok) ==
    /\ OnSheet
    /\ l \in loads /\ l.phase = "attendance"
    /\ loads' = loads \ {l}
    /\ loading' = FALSE
    /\ today' = utcDate
    /\ LET data == RowsOf(attendanceTable, l.date)
       IN  IF ok /\ data # {}
           THEN /\ attendance' = MapOf(data, "status")
                /\ notes' = MapOf(data, "notes")
                /\ \E firstRecord \in data :
                      filledByInfo' =
                          [name |-> FullName(firstRecord.created_by),
                           time |-> firstRecord.created_at]
           ELSE UNCHANGED <<attendance, notes, filledByInfo>>
    /\ toast' = NoToast
    /\ ev' = [NoEv EXCEPT !.op = "load", !.ok = ok, !.date = l.date, !.live = TRUE]
    /\ UNCHANGED <<latest, lastRecords>>
    /\ UNCHANGED <<envVars, appVars, selectedDate, calendarMonth, showCalendar,
                   datesWithAttendance, students, saving, dateQueries, saves>>
    /\ UNCHANGED <<meetVars, dashVars, reportVars>>

\* fetchExistingAttendance(date) answers and init() ends with
\* setLoading(false).  data[0] is whichever row the store lists first.
AttendanceResponse(l, ok) ==
    /\ OnSheet
    /\ l \in loads /\ l.phase = "attendance"
    /\ loads' = loads \ {l}
    /\ loading' = FALSE
    /\ today' = utcDate
    /\ LET data == RowsOf(attendanceTable, l.date)
       IN  IF ok
           THEN IF data # {}
                THEN /\ attendance' = MapOf(data, "status")
                     /\ notes' = MapOf(data, "notes")
                     /\ \E firstRecord \in data :
                           filledByInfo' =
                               [name |-> FullName(firstRecord.created_by),
                                time |-> firstRecord.created_at]
                ELSE /\ attendance' = EmptyMap
                     /\ notes' = EmptyMap
                     /\ filledByInfo' = NoInfo
           ELSE UNCHANGED <<attendance, notes, filledByInfo>>
    /\ toast' = NoToast
    /\ ev' = [NoEv EXCEPT !.op = "load", !.ok = ok, !.date = l.date, !.live = TRUE]
    /\ UNCHANGED <<latest, lastRecords>>
    /\ UNCHANGED <<envVars, appVars, selectedDate, calendarMonth, showCalendar,
                   datesWithAttendance, students, saving, dateQueries, saves>>
    /\ UNCHANGED <<meetVars, dashVars, reportVars>>

\* fetchDatesWithAttendance answers for month m
DatesResponse(m, ok) ==
    /\ OnSheet
    /\ m \in dateQueries
    /\ dateQueries' = dateQueries \ {m}
    /\ LET startDate == LocalMidnightToIso(FirstDayOf(m))
           endDate == LocalMidnightToIso(LastDayOf(m))
           data == {x \in attendanceTable :
                       /\ x.classroom_id = ClassroomId
                       /\ x.date >= startDate /\ x.date <= endDate}
       IN  datesWithAttendance' =
               IF ok THEN {x.date : x \in data} ELSE datesWithAttendance
    /\ today' = IF ok THEN utcDate ELSE today
    /\ Quiet
    /\ UNCHANGED <<envVars, appVars, selectedDate, calendarMonth, showCalendar,
                   setVars, loads, saves>>
    /\ UNCHANGED <<meetVars, dashVars, reportVars>>

\* ---------------------------------------------------- in-memory mutations
\* faulty variant: the status is given to every student of the roster
setStatusOfAll(id, status) ==
    /\ OnSheet
    /\ ~loading
    /\ id \in students
    /\ attendance' = [s \in Students |->
                         IF s \in students THEN status ELSE attendance[s]]
    /\ today' = IF attendance' # attendance THEN utcDate ELSE today
    /\ Quiet
    /\ UNCHANGED <<envVars, appVars, selectedDate, calendarMonth, showCalendar,
                   datesWithAttendance, students, notes, loading, saving,
                   filledByInfo, flightVars>>
    /\ UNCHANGED <<meetVars, dashVars, reportVars>>

\* a status button of a student row (rows are rendered when not loading)
setStatus(id, status) ==
    /\ OnSheet
    /\ ~loading
    /\ id \in students
    /\ attendance' = [attendance EXCEPT ![id] = status]
    /\ today' = IF attendance' # attendance THEN utcDate ELSE today
    /\ Quiet
    /\ UNCHANGED <<envVars, appVars, selectedDate, calendarMonth, showCalendar,
                   datesWithAttendance, students, notes, loading, saving,
                   filledByInfo, flightVars>>
    /\ UNCHANGED <<meetVars, dashVars, reportVars>>

\* faulty variant: only the students without a mark are set, and the marks
\* the set held are kept
markAllUnmarked ==
    /\ OnSheet
    /\ attendance' = [s \in Students |->
                         IF s \in students /\ attendance[s] = NONE
                         THEN PRESENT ELSE attendance[s]]
    /\ today' = utcDate
    /\ Quiet
    /\ UNCHANGED <<envVars, appVars, selectedDate, calendarMonth, showCalendar,
                   datesWithAttendance, students, notes, loading, saving,
                   filledByInfo, flightVars>>
    /\ UNCHANGED <<meetVars, dashVars, reportVars>>

\* the "Marcar todos" button, rendered whether the sheet is loading or not: a
\* fresh object with PRESENT for each student of the students state
markAllPresent ==
    /\ OnSheet
    /\ attendance' = [s \in Students |-> IF s \in students THEN PRESENT ELSE NONE]
    /\ today' = utcDate
    /\ Quiet
    /\ UNCHANGED <<envVars, appVars, selectedDate, calendarMonth, showCalendar,
                   datesWithAttendance, students, notes, loading, saving,
                   filledByInfo, flightVars>>
    /\ UNCHANGED <<meetVars, dashVars, reportVars>>

\* ------------------------------------------------------------------- save
\* saveAttendance with an empty in-memory set: the toast and the return
SaveEmpty ==
    /\ OnSheet
    /\ ~saving                                    \* disabled={saving}
    /\ Keys(attendance) = {}
    /\ toast' = [type |-> "error", msg |-> "empty"]
    /\ ev' = [NoEv EXCEPT !.op = "empty", !.date = selectedDate, !.live = TRUE]
    /\ UNCHANGED <<envVars, appVars, navVars, setVars, flightVars, latest,
                   lastRecords>>
    /\ UNCHANGED <<meetVars, dashVars, reportVars>>

\* faulty variant: saveAttendance without the test for an empty set
SaveClickNoEmptyTest ==
    /\ OnSheet
    /\ ~saving
    /\ clock + Cardinality(saves) \in CommitTimes
    /\ saving' = TRUE
    /\ saves' = saves \cup {[records |-> Records, date |-> selectedDate,
                             isToday |-> isToday, by |-> userId,
                             userName |-> FullName(userId), live |-> TRUE]}
    /\ today' = utcDate
    /\ Quiet
    /\ UNCHANGED <<envVars, appVars, selectedDate, calendarMonth, showCalendar,
                   datesWithAttendance, students, attendance, notes, loading,
                   filledByInfo, loads, dateQueries>>
    /\ UNCHANGED <<meetVars, dashVars, reportVars>>

\* faulty variant: a save button that is not disabled while saving
SaveClickWhileSaving ==
    /\ OnSheet
    /\ Keys(attendance) # {}
    /\ clock + Cardinality(saves) \in CommitTimes
    /\ saving' = TRUE
    /\ saves' = saves \cup {[records |-> Records, date |-> selectedDate,
                             isToday |-> isToday, by |-> userId,
                             userName |-> FullName(userId), live |-> TRUE]}
    /\ today' = utcDate
    /\ Quiet
    /\ UNCHANGED <<envVars, appVars, selectedDate, calendarMonth, showCalendar,
                   datesWithAttendance, students, attendance, notes, loading,
                   filledByInfo, loads, dateQueries>>
    /\ UNCHANGED <<meetVars, dashVars, reportVars>>

\* saveAttendance up to the await of the upsert call
SaveClick ==
    /\ OnSheet
    /\ ~saving
    /\ Keys(attendance) # {}
    /\ clock + Cardinality(saves) \in CommitTimes
    /\ saving' = TRUE
    /\ saves' = saves \cup {[records |-> Records, date |-> selectedDate,
                             isToday |-> isToday, by |-> userId,
                             userName |-> FullName(userId), live |-> TRUE]}
    /\ today' = utcDate
    /\ Quiet
    /\ UNCHANGED <<envVars, appVars, selectedDate, calendarMonth, showCalendar,
                   datesWithAttendance, students, attendance, notes, loading,
                   filledByInfo, loads, dateQueries>>
    /\ UNCHANGED <<meetVars, dashVars, reportVars>>

\* the upsert call answers: the rest of saveAttendance
SaveResponse(q, ok) ==
    /\ q \in saves
    /\ saves' = IF ok /\ q.live /\ q.isToday
                THEN {[x EXCEPT !.live = FALSE] : x \in saves \ {q}}
                ELSE saves \ {q}
    /\ attendanceTable' =
           IF ok THEN Upsert(attendanceTable, q.records, clock)
                 ELSE attendanceTable
    /\ clock' = IF ok THEN clock + 1 ELSE clock
    /\ toast' = IF ok THEN [type |-> "success", msg |-> "saved"]
                      ELSE [type |-> "error", msg |-> "save"]
    /\ ev' = [NoEv EXCEPT
                 !.op = "save", !.ok = ok, !.date = q.date,
                 !.records = q.records,
                 !.changed = {r.student_id : r \in
                                {r \in q.records :
                                   \E x \in attendanceTable :
                                      SameKey(x, r) /\ x.status # r.status}},
                 !.repeat = (q.records = lastRecords), !.live = q.live]
    /\ latest' =
           IF ok
           THEN [latest EXCEPT ![q.date] =
                    [by |-> q.by, at |-> clock,
                     resave |-> latest[q.date].by \notin {"nobody", q.by}]]
           ELSE latest
    /\ lastRecords' = IF ok THEN q.records ELSE lastRecords
    /\ IF ~q.live
       THEN UNCHANGED <<view, navVars, setVars, loads, dateQueries>>
       ELSE IF ok /\ q.isToday
            THEN Unmount                           \* onBack()
            ELSE /\ saving' = FALSE
                 /\ filledByInfo' =
                        IF ok THEN [name |-> q.userName, time |-> clock]
                              ELSE filledByInfo
                 /\ datesWithAttendance' =
                        IF ok THEN datesWithAttendance \cup {q.date}
                              ELSE datesWithAttendance
                 /\ today' = utcDate
                 /\ UNCHANGED <<view, selectedDate, calendarMonth, showCalendar,
                                students, attendance, notes, loading, loads,
                                dateQueries>>
    /\ UNCHANGED <<tz, utcDate, enrolled, staff, userId>>
    /\ UNCHANGED <<meetVars, dashVars, reportVars>>

\* ------------------------------------------------ meeting attendance sheet
OnMeetingSheet == view = "MEETING_ATTENDANCE_SHEET"

\* null for a meeting, and the in-memory set with no key
NoMeeting == [id |-> 0, date |-> 0, classroom_id |-> "none"]
NoRecord == [studentId |-> "none", attended |-> FALSE, familyMember |-> "padre",
             otherFamilyMemberName |-> ""]
NoAttendance == [s \in Students |-> NoRecord]

\* .from('meeting_attendance').select('*').eq('meeting_id', id)
MeetingRowsOf(tbl, id) == {x \in tbl : x.meeting_id = id}

\* .from('meeting_attendance').delete().eq('meeting_id', id)
DeleteMeetingRows(tbl, id) == {x \in tbl : x.meeting_id # id}

\* .from('meetings').eq('classroom_id', ..).eq('date', d).maybeSingle():
\* the row when there is exactly one, no data otherwise
MaybeSingle(d) ==
    LET rows == {m \in meetings : m.classroom_id = ClassroomId /\ m.date = d}
    IN  IF Cardinality(rows) = 1 THEN CHOOSE m \in rows : TRUE ELSE NoMeeting

\* records of saveAttendance: the attended entries of the in-memory set
MeetingRecords(att, id, t) ==
    {[meeting_id |-> id,
      student_id |-> att[s].studentId,
      family_member_type |-> att[s].familyMember,
      other_family_member_name |->
          IF att[s].familyMember = "otro_familiar"
          THEN att[s].otherFamilyMemberName ELSE NONE,
      attended_at |-> t] :
        s \in {x \in Students : att[x].attended}}

\* faulty variant: the insert is issued for an empty list as well
NeedsInsertAlways(records) == TRUE

\* if (records.length > 0)
NeedsInsert(records) == records # {}

\* the load effect of the meeting sheet on [classroom, selectedDate]
StartMeetingLoad(d) ==
    /\ loads' = loads \cup {[phase |-> "students", date |-> d, id |-> 0]}
    /\ loading' = TRUE

\* mounting the meeting sheet with meetingId = id: the init effect and the
\* load effect for today start together
MountMeetingSheet(id) ==
    /\ view' = "MEETING_ATTENDANCE_SHEET"
    /\ today' = utcDate
    /\ selectedDate' = utcDate
    /\ \E ld \in LocalDates(utcDate) : calendarMonth' = MonthOf(ld)
    /\ showCalendar' = FALSE
    /\ activeMeeting' = NoMeeting
    /\ students' = {}
    /\ attendance' = NoAttendance
    /\ loading' = TRUE
    /\ saving' = FALSE
    /\ loads' = {[phase |-> "init", date |-> utcDate, id |-> id],
                 [phase |-> "students", date |-> utcDate, id |-> 0]}

\* the meeting sheet unmounts: onBack is navigate('/reuniones')
UnmountMeetingSheet ==
    /\ view' = "MEETINGS"
    /\ today' = 0
    /\ selectedDate' = 0
    /\ calendarMonth' = 0
    /\ showCalendar' = FALSE
    /\ activeMeeting' = NoMeeting
    /\ students' = {}
    /\ attendance' = EmptyMap
    /\ loading' = FALSE
    /\ saving' = FALSE
    /\ loads' = {}

\* the route /reuniones is opened from the dashboard
OpenMeetings ==
    /\ view = "DASHBOARD"
    /\ view' = "MEETINGS"
    /\ assignedClassrooms' = <<>>
    /\ classrooms' = <<>>
    /\ Quiet
    /\ UNCHANGED <<envVars, userId, navVars, setVars, flightVars, meetVars,
                   reportVars, user, classroomRows>>

\* handleCreateMeeting with the form filled in: the row is inserted with the
\* date of the form as it is, and onCreateMeeting opens the sheet on it
handleCreateMeeting(meetingDate, ok) ==
    /\ view = "MEETINGS"
    /\ Cardinality(meetings) < MaxMeetings
    /\ IF ok
       THEN LET data == [id |-> Cardinality(meetings) + 1, date |-> meetingDate,
                         classroom_id |-> ClassroomId]
            IN  /\ meetings' = meetings \cup {data}
                /\ toast' = [type |-> "success", msg |-> "created"]
                /\ selectedMeeting' = [id |-> data.id, date |-> utcDate]
                /\ MountMeetingSheet(data.id)
                /\ classrooms' = <<>>
       ELSE /\ toast' = [type |-> "error", msg |-> "create"]
            /\ UNCHANGED <<meetings, selectedMeeting, view, today, selectedDate,
                           calendarMonth, showCalendar, activeMeeting, students,
                           attendance, loading, saving, loads, classrooms>>
    /\ ev' = NoEv
    /\ UNCHANGED <<tz, utcDate, clock, enrolled, staff, attendanceTable,
                   meetingAttendance, userId, datesWithAttendance, notes,
                   filledByInfo, dateQueries, saves, latest, lastRecords,
                   reportVars, user, classroomRows, assignedClassrooms>>

\* onViewMeetingDetail on a meeting of the list
onViewMeetingDetail(meeting) ==
    /\ view = "MEETINGS"
    /\ meeting \in meetings
    /\ selectedMeeting' = [id |-> meeting.id, date |-> meeting.date]
    /\ view' = "MEETING_DETAIL"
    /\ classrooms' = <<>>
    /\ Quiet
    /\ UNCHANGED <<envVars, userId, navVars, setVars, flightVars, meetings,
                   meetingAttendance, activeMeeting, reportVars, user, classroomRows,
                   assignedClassrooms>>

\* onEditAttendance of the detail view: the sheet opens on the meeting
onEditAttendance ==
    /\ view = "MEETING_DETAIL"
    /\ MountMeetingSheet(selectedMeeting.id)
    /\ Quiet
    /\ UNCHANGED <<envVars, userId, datesWithAttendance, notes, filledByInfo,
                   dateQueries, saves, meetings, meetingAttendance,
                   selectedMeeting, dashVars, reportVars>>

\* the back button of the meeting sheet
MeetingSheetBack ==
    /\ OnMeetingSheet
    /\ UnmountMeetingSheet
    /\ saves' = {[q EXCEPT !.live = FALSE] : q \in saves}
    /\ Quiet
    /\ UNCHANGED <<envVars, userId, datesWithAttendance, notes, filledByInfo,
                   dateQueries, meetings, meetingAttendance, selectedMeeting,
                   dashVars, reportVars>>

\* the init effect answers: .single() on the meeting id
MeetingInitResponse(l, ok) ==
    /\ OnMeetingSheet
    /\ l \in loads /\ l.phase = "init"
    /\ LET found == {m \in meetings : m.id = l.id}
       IN  IF ok /\ found # {}
           THEN LET data == CHOOSE m \in found : TRUE
                IN  /\ activeMeeting' = data
                    /\ selectedDate' = data.date
                    /\ calendarMonth' = MonthOf(data.date)
                    /\ IF data.date # selectedDate
                       THEN /\ loads' = (loads \ {l}) \cup
                                   {[phase |-> "students", date |-> data.date,
                                     id |-> 0]}
                            /\ loading' = TRUE
                       ELSE /\ loads' = loads \ {l}
                            /\ UNCHANGED loading
           ELSE /\ loads' = loads \ {l}
                /\ UNCHANGED <<activeMeeting, selectedDate, calendarMonth,
                               loading>>
    /\ today' = utcDate
    /\ Quiet
    /\ UNCHANGED <<envVars, appVars, showCalendar, datesWithAttendance,
                   students, attendance, notes, saving, filledByInfo,
                   dateQueries, saves, meetings, meetingAttendance,
                   selectedMeeting, dashVars, reportVars>>

\* loadData: fetchStudents answers, the meeting of the date is asked for
MeetingStudentsResponse(l, ok) ==
    /\ OnMeetingSheet
    /\ l \in loads /\ l.phase = "students"
    /\ students' = IF ok THEN enrolled ELSE students
    /\ loads' = (loads \ {l}) \cup {[l EXCEPT !.phase = "meeting"]}
    /\ today' = utcDate
    /\ Quiet
    /\ UNCHANGED <<envVars, appVars, selectedDate, calendarMonth, showCalendar,
                   datesWithAttendance, attendance, notes, loading, saving,
                   filledByInfo, dateQueries, saves, meetVars, dashVars, reportVars>>

\* loadData: the meeting of the date answers
MeetingQueryResponse(l, ok) ==
    /\ OnMeetingSheet
    /\ l \in loads /\ l.phase = "meeting"
    /\ LET data == IF ok THEN MaybeSingle(l.date) ELSE NoMeeting
       IN  IF data # NoMeeting
           THEN /\ activeMeeting' = data
                /\ loads' = (loads \ {l}) \cup
                       {[l EXCEPT !.phase = "attendance", !.id = data.id]}
                /\ UNCHANGED <<attendance, loading>>
           ELSE /\ activeMeeting' = NoMeeting
                /\ attendance' = NoAttendance
                /\ loading' = FALSE
                /\ loads' = loads \ {l}
    /\ today' = utcDate
    /\ Quiet
    /\ UNCHANGED <<envVars, appVars, selectedDate, calendarMonth, showCalendar,
                   datesWithAttendance, students, notes, saving, filledByInfo,
                   dateQueries, saves, meetings, meetingAttendance,
                   selectedMeeting, dashVars, reportVars>>

\* loadData: fetchExistingAttendance answers, then setLoading(false)
MeetingAttendanceResponse(l, ok) ==
    /\ OnMeetingSheet
    /\ l \in loads /\ l.phase = "attendance"
    /\ LET data == MeetingRowsOf(meetingAttendance, l.id)
           of(s) == {x \in data : x.student_id = s}
       IN  IF ok
           THEN \E last \in [Students -> FamilyMemberType] :
                   /\ \A s \in Students :
                         IF of(s) = {} THEN last[s] = "padre"
                         ELSE \E x \in of(s) : last[s] = x.family_member_type
                   /\ attendance' =
                         [s \in Students |->
                            IF of(s) = {} THEN NoRecord
                            ELSE [studentId |-> s, attended |-> TRUE,
                                  familyMember |-> last[s],
                                  otherFamilyMemberName |-> ""]]
           ELSE UNCHANGED attendance
    /\ loading' = FALSE
    /\ loads' = loads \ {l}
    /\ today' = utcDate
    /\ Quiet
    /\ UNCHANGED <<envVars, appVars, selectedDate, calendarMonth, showCalendar,
                   datesWithAttendance, students, notes, saving, filledByInfo,
                   dateQueries, saves, meetVars, dashVars, reportVars>>

\* toggleAttendance(studentId) on a row of the list
toggleAttendance(studentId) ==
    /\ OnMeetingSheet
    /\ ~loading /\ studentId \in students
    /\ activeMeeting # NoMeeting
    /\ attendance' =
           IF attendance[studentId].attended
           THEN [attendance EXCEPT ![studentId] = NoRecord]
           ELSE [attendance EXCEPT ![studentId] =
                    [studentId |-> studentId, attended |-> TRUE,
                     familyMember |-> "padre", otherFamilyMemberName |-> ""]]
    /\ today' = utcDate
    /\ Quiet
    /\ UNCHANGED <<envVars, appVars, selectedDate, calendarMonth, showCalendar,
                   datesWithAttendance, students, notes, loading, saving,
                   filledByInfo, flightVars, meetVars, dashVars, reportVars>>

\* setFamilyMember(studentId, type): the select of an attended row
setFamilyMember(studentId, type) ==
    /\ OnMeetingSheet
    /\ ~loading /\ studentId \in students
    /\ activeMeeting # NoMeeting
    /\ attendance[studentId].attended
    /\ attendance' = [attendance EXCEPT ![studentId].familyMember = type]
    /\ today' = utcDate
    /\ Quiet
    /\ UNCHANGED <<envVars, appVars, selectedDate, calendarMonth, showCalendar,
                   datesWithAttendance, students, notes, loading, saving,
                   filledByInfo, flightVars, meetVars, dashVars, reportVars>>

\* setSelectedDate(d) on the meeting sheet
SetMeetingDate(d) ==
    /\ selectedDate' = d
    /\ IF d # selectedDate
       THEN /\ Cardinality({l \in loads : l.phase # "init"}) < MaxLoads
            /\ StartMeetingLoad(d)
       ELSE UNCHANGED <<loads, loading>>

\* goToPreviousDay of the meeting sheet
MeetingGoToPreviousDay ==
    /\ OnMeetingSheet
    /\ LET newDate == LocalMidnightToIso(selectedDate - 1)
       IN  /\ newDate >= 0
           /\ SetMeetingDate(newDate)
           /\ today' = IF newDate # selectedDate THEN utcDate ELSE today
    /\ Quiet
    /\ UNCHANGED <<envVars, appVars, calendarMonth, showCalendar,
                   datesWithAttendance, students, attendance, notes, saving,
                   filledByInfo, dateQueries, saves, meetVars, dashVars, reportVars>>

\* goToNextDay of the meeting sheet
MeetingGoToNextDay ==
    /\ OnMeetingSheet
    /\ ~isToday                                   \* disabled={isToday}
    /\ LET nextDate == LocalMidnightToIso(selectedDate + 1)
       IN  /\ nextDate <= today
           /\ SetMeetingDate(nextDate)
           /\ today' = IF nextDate # selectedDate THEN utcDate ELSE today
    /\ Quiet
    /\ UNCHANGED <<envVars, appVars, calendarMonth, showCalendar,
                   datesWithAttendance, students, attendance, notes, saving,
                   filledByInfo, dateQueries, saves, meetVars, dashVars, reportVars>>

\* goToToday of the meeting sheet
MeetingGoToToday ==
    /\ OnMeetingSheet
    /\ SetMeetingDate(today)
    /\ \E ld \in LocalDates(utcDate) : calendarMonth' = MonthOf(ld)
    /\ today' = utcDate
    /\ Quiet
    /\ UNCHANGED <<envVars, appVars, showCalendar, datesWithAttendance,
                   students, attendance, notes, saving, filledByInfo,
                   dateQueries, saves, meetVars, dashVars, reportVars>>

\* saveAttendance of the meeting sheet up to the await of the delete call
MeetingSaveClick ==
    /\ OnMeetingSheet
    /\ activeMeeting # NoMeeting                  \* if (!activeMeeting) return
    /\ ~saving                                    \* disabled={saving}
    /\ clock + Cardinality(saves) \in CommitTimes
    /\ saving' = TRUE
    /\ saves' = saves \cup
           {[phase |-> "delete", meeting_id |-> activeMeeting.id,
             date |-> activeMeeting.date, attendance |-> attendance,
             records |-> {}, isToday |-> isToday, live |-> TRUE,
             before |-> MeetingRowsOf(meetingAttendance, activeMeeting.id),
             deleted |-> FALSE]}
    /\ today' = utcDate
    /\ Quiet
    /\ UNCHANGED <<envVars, appVars, selectedDate, calendarMonth, showCalendar,
                   datesWithAttendance, students, attendance, notes, loading,
                   filledByInfo, loads, dateQueries, meetVars, dashVars, reportVars>>

\* the end of saveAttendance for the call q, by then done: the toast, onBack
\* on today, setSaving(false)
FinishMeetingSave(q, done, ok, inserts) ==
    /\ toast' = IF ok THEN [type |-> "success", msg |-> "saved"]
                      ELSE [type |-> "error", msg |-> "save"]
    /\ ev' = [NoEv EXCEPT !.op = "msave", !.ok = ok, !.date = done.date,
                          !.records = done.records, !.live = done.live,
                          !.meeting = done.meeting_id, !.before = done.before,
                          !.deleted = done.deleted, !.inserts = inserts]
    /\ IF ~q.live
       THEN /\ saves' = saves \ {q}
            /\ UNCHANGED <<view, today, selectedDate, calendarMonth,
                           showCalendar, activeMeeting, students, attendance,
                           loading, saving, loads>>
       ELSE IF ok /\ q.isToday
            THEN /\ UnmountMeetingSheet                \* onBack()
                 /\ saves' = {[x EXCEPT !.live = FALSE] : x \in saves \ {q}}
            ELSE /\ saving' = FALSE
                 /\ saves' = saves \ {q}
                 /\ today' = utcDate
                 /\ UNCHANGED <<view, selectedDate, calendarMonth, showCalendar,
                                activeMeeting, students, attendance, loading,
                                loads>>

\* the delete call answers; its result is not looked at. The records are
\* prepared, and inserted when there are any
MeetingDeleteResponse(q, ok) ==
    /\ q \in saves /\ q.phase = "delete"
    /\ meetingAttendance' =
           IF ok THEN DeleteMeetingRows(meetingAttendance, q.meeting_id)
                 ELSE meetingAttendance
    /\ LET records == MeetingRecords(q.attendance, q.meeting_id, clock)
           done == [q EXCEPT !.deleted = ok, !.records = records]
       IN  IF NeedsInsert(records)
           THEN /\ saves' = (saves \ {q}) \cup {[done EXCEPT !.phase = "insert"]}
                /\ toast' = NoToast
                /\ ev' = NoEv
                /\ UNCHANGED <<view, today, selectedDate, calendarMonth,
                               showCalendar, activeMeeting, students,
                               attendance, loading, saving, loads>>
           ELSE FinishMeetingSave(q, done, TRUE, 0)
    /\ UNCHANGED <<tz, utcDate, clock, enrolled, staff, attendanceTable,
                   userId, datesWithAttendance, notes, filledByInfo,
                   dateQueries, latest, lastRecords, meetings, selectedMeeting,
                   dashVars, reportVars>>

\* the insert call answers: if (error) throw error
MeetingInsertResponse(q, ok) ==
    /\ q \in saves /\ q.phase = "insert"
    /\ meetingAttendance' =
           IF ok THEN meetingAttendance \cup q.records ELSE meetingAttendance
    /\ clock' = IF ok THEN clock + 1 ELSE clock
    /\ FinishMeetingSave(q, q, ok, 1)
    /\ UNCHANGED <<tz, utcDate, enrolled, staff, attendanceTable, userId,
                   datesWithAttendance, notes, filledByInfo, dateQueries,
                   latest, lastRecords, meetings, selectedMeeting, dashVars, reportVars>>

\* ------------------------------------------------------ visible classrooms
UserRole == {"Administrador", "Docente", "Auxiliar", "Supervisor", "Secretaria"}

\* a level as text: its first character and the rest
Inicial == [first |-> "I", rest |-> "nicial"]
Primaria == [first |-> "P", rest |-> "rimaria"]
NoLevel == [first |-> "", rest |-> ""]
\* the spellings the level column of the runs holds
StoredLevels == {[first |-> "i", rest |-> "nicial"], Primaria,
                 [first |-> "p", rest |-> "rimaria"]}

\* String.prototype.toUpperCase on one character
toUpperCase(ch) ==
    CASE ch = "i" -> "I"
      [] ch = "p" -> "P"
      [] OTHER -> ch

\* c.id.toString()
toString(n) ==
    CASE n = 1 -> "1"
      [] n = 2 -> "2"
      [] n = 3 -> "3"
      [] OTHER -> "0"

\* the assignments the runs give a staff member: to a classroom, to a level
Assignments ==
    {[classroomId |-> toString(n), level |-> NoLevel] : n \in 1..MaxClassrooms}
    \cup {[classroomId |-> "undefined", level |-> l] : l \in {Inicial, Primaria}}

ClassroomRow == [id : 1..MaxClassrooms, level : StoredLevels, active : BOOLEAN]

\* the tables of the runs: up to MaxClassrooms rows, the id a key
ClassroomTables ==
    {t \in UNION {[1..n -> ClassroomRow] : n \in 0..MaxClassrooms} :
        \A i, j \in 1..Len(t) : t[i].id = t[j].id => i = j}

\* .from('classrooms').select('*').eq('active', true)
IsActive(c) == c.active
ActiveClassrooms(rows) == SelectSeq(rows, IsActive)

\* classroomsData.map(...): the id as text, the level capitalised
MapClassroom(c) ==
    [id |-> toString(c.id),
     level |-> [first |-> toUpperCase(c.level.first), rest |-> c.level.rest]]
MappedClassrooms(rows) ==
    [i \in 1..Len(ActiveClassrooms(rows)) |-> MapClassroom(ActiveClassrooms(rows)[i])]

\* faulty variant: an assignment must match the id and the level
MatchesIdAndLevel(assign, classroom) ==
    assign.classroomId = classroom.id /\ assign.level = classroom.level

\* faulty variant: only assignments to the classroom itself count
MatchesIdOnly(assign, classroom) ==
    assign.classroomId = classroom.id

\* assign.classroomId === classroom.id || assign.level === classroom.level
Matches(assign, classroom) ==
    assign.classroomId = classroom.id \/ assign.level = classroom.level

\* the filter by assignments of both fetchClassrooms
FilterClassrooms(u, mapped) ==
    IF u.role = "Administrador" \/ u.role = "Supervisor"
    THEN mapped
    ELSE LET Assigned(classroom) ==
                 \E assign \in u.assignments : Matches(assign, classroom)
         IN  SelectSeq(mapped, Assigned)

\* Dashboard.fetchClassrooms answers
DashboardFetchClassrooms(ok) ==
    /\ view = "DASHBOARD"
    /\ assignedClassrooms' =
           IF ok THEN FilterClassrooms(user, MappedClassrooms(classroomRows))
                 ELSE assignedClassrooms
    /\ toast' = NoToast
    /\ ev' = [NoEv EXCEPT !.op = "classrooms", !.ok = ok]
    /\ UNCHANGED <<latest, lastRecords>>
    /\ UNCHANGED <<envVars, appVars, navVars, setVars, flightVars, meetVars,
                   reportVars, user, classroomRows, classrooms>>

\* Meetings.fetchClassrooms answers
MeetingsFetchClassrooms(ok) ==
    /\ view = "MEETINGS"
    /\ classrooms' =
           IF ok THEN FilterClassrooms(user, MappedClassrooms(classroomRows))
                 ELSE classrooms
    /\ toast' = NoToast
    /\ ev' = [NoEv EXCEPT !.op = "classrooms", !.ok = ok]
    /\ UNCHANGED <<latest, lastRecords>>
    /\ UNCHANGED <<envVars, appVars, navVars, setVars, flightVars, meetVars,
                   reportVars, user, classroomRows, assignedClassrooms>>

\* the "Control Diario" entry of the menu
OpenDashboard ==
    /\ view \in {"MEETINGS", "REPORTS", "CLASSROOM_REPORT_DETAIL"}
    /\ view' = "DASHBOARD"
    /\ assignedClassrooms' = <<>>
    /\ classrooms' = <<>>
    /\ appliedFilters' = NoFilters
    /\ classroomStats' = <<>>
    /\ detailStudents' = {}
    /\ attendanceRecords' = {}
    /\ Quiet
    /\ UNCHANGED <<envVars, userId, navVars, setVars, flightVars, meetVars,
                   user, classroomRows, selectedClassroom, reportConfig,
                   bimesterVars>>

\* ---------------------------------------------------------------- reports
\* the dates the stored rows of the report runs carry
ReportDates == 0..MaxReportDay
NoClassroom == [id |-> "", level |-> NoLevel]
NoBimestre == [start_date |-> 0, end_date |-> -1]

\* the classroom_id the rows of the classroom with id "1" or "2" carry
ClassroomKey(id) == IF id = "1" THEN ClassroomId ELSE "c2"
\* .from('students') ... .eq('classroom_id', id)
StudentsOf(id) == IF id = "1" THEN enrolled ELSE {"s3"}

\* the date conditions of the attendance query of a report
InRange(x, range, startDate, endDate) ==
    CASE range = "Día" -> x.date = startDate
      [] range = "Personalizado" /\ endDate # NoDate ->
             x.date >= startDate /\ x.date <= endDate
      [] OTHER -> x.date >= startDate

\* faulty variant: only PRESENT counts as present
IsPresentOnly(status) == status = PRESENT

\* a.status === PRESENT || a.status === LATE
IsPresentEquivalent(status) == status = PRESENT \/ status = LATE
\* a.status === ABSENT || a.status === JUSTIFIED
IsAbsentEquivalent(status) == status = ABSENT \/ status = JUSTIFIED

\* faulty variant: the quotient is cut, not rounded
Truncate(a, b) == a \div b

\* Math.round(a / b) for a >= 0 and b > 0: halves go up
Round(a, b) == (2 * a + b) \div (2 * b)

\* faulty variant: no test of the denominator, and x / 0 is NaN or Infinity
PercentageUnguarded(present, totalMarked) ==
    IF totalMarked = 0 THEN -1 ELSE Round(present * 1000, totalMarked)

\* totalMarked > 0 ? (present / totalMarked) * 100 : 0, then
\* Math.round(percentage * 10) / 10: the value in tenths of a percent
Percentage(present, totalMarked) ==
    IF totalMarked > 0 THEN Round(present * 1000, totalMarked) ELSE 0

\* one element of stats = classroomsData.map(...)
ClassroomStat(c, f) ==
    LET attendanceData ==
            {a \in attendanceTable : InRange(a, f.range, f.startDate, f.endDate)}
        classroomAttendance ==
            {a \in attendanceData : a.classroom_id = ClassroomKey(toString(c.id))}
        present ==
            Cardinality({a \in classroomAttendance : IsPresentEquivalent(a.status)})
        absent ==
            Cardinality({a \in classroomAttendance : IsAbsentEquivalent(a.status)})
    IN  [id |-> c.id, level |-> c.level,
         studentCount |-> Cardinality(StudentsOf(toString(c.id))),
         presentCount |-> present, absentCount |-> absent,
         percentage |-> Percentage(present, present + absent)]

\* stats over .from('classrooms') ... .eq('active', true)
Stats(f) ==
    [i \in 1..Len(ActiveClassrooms(classroomRows)) |->
        ClassroomStat(ActiveClassrooms(classroomRows)[i], f)]

\* BimesterReport unmounts, or is not mounted
UnmountBimesterReport ==
    /\ bimestres' = <<>>
    /\ selectedBimestre' = NoBimestre
    /\ bimesterStudents' = {}
    /\ bimesterAttendance' = {}
    /\ UNCHANGED bimestreRows

\* fetchClassroomStats under filters f answers: setClassrooms(stats), or the
\* catch that keeps the list as it was
FetchClassroomStats(f, ok, was) ==
    /\ classroomStats' = IF ok THEN Stats(f) ELSE was
    /\ toast' = NoToast
    /\ ev' = [NoEv EXCEPT !.op = "stats", !.ok = ok]
    /\ UNCHANGED <<latest, lastRecords>>

\* the "Reportes" entry of the menu, or onBack of the detail report: Reports
\* mounts with today's date and range Día, and its effect fetches the list
OpenReports(ok) ==
    /\ view \in {"DASHBOARD", "ATTENDANCE_SHEET", "BIMESTER_REPORT",
                 "CLASSROOM_REPORT_DETAIL"}
    /\ view' = "REPORTS"
    /\ appliedFilters' =
           [startDate |-> utcDate, endDate |-> utcDate, range |-> "Día"]
    /\ FetchClassroomStats(appliedFilters', ok, <<>>)
    /\ detailStudents' = {}
    /\ attendanceRecords' = {}
    /\ UnmountBimesterReport
    /\ UNCHANGED <<envVars, userId, navVars, setVars, flightVars, meetVars,
                   dashVars, selectedClassroom, reportConfig>>

\* the filters the filter bar can hold when "Aplicar" is pressed: the end
\* date is edited under Personalizado only, where its input is shown.  The
\* ranges Bimestre and Semestre take the branch of Semana in every query
Filters ==
    {[startDate |-> s, endDate |-> e, range |-> "Personalizado"] :
        s \in ReportDates, e \in ReportDates \cup {NoDate}}
    \cup {[startDate |-> s, endDate |-> utcDate, range |-> r] :
             s \in ReportDates, r \in {"Día", "Semana"}}

\* handleApplyFilters, and the effect on appliedFilters
handleApplyFilters(f, ok) ==
    /\ view = "REPORTS"
    /\ appliedFilters' = f
    /\ FetchClassroomStats(f, ok, classroomStats)
    /\ UNCHANGED <<envVars, appVars, navVars, setVars, flightVars, meetVars,
                   dashVars, selectedClassroom, reportConfig, detailStudents,
                   attendanceRecords, bimesterVars>>

\* handleClassroomClick on entry i of the list and onSelectClassroom of the
\* route /reportes: ClassroomReportDetail mounts with no students, no records
handleClassroomClick(i) ==
    /\ view = "REPORTS"
    /\ i \in 1..Len(classroomStats)
    /\ selectedClassroom' = [id |-> toString(classroomStats[i].id),
                             level |-> classroomStats[i].level]
    /\ reportConfig' =
           [date |-> appliedFilters.startDate, range |-> appliedFilters.range,
            endDate |-> IF appliedFilters.range = "Personalizado"
                        THEN appliedFilters.endDate ELSE NoDate]
    /\ view' = "CLASSROOM_REPORT_DETAIL"
    /\ appliedFilters' = NoFilters
    /\ classroomStats' = <<>>
    /\ detailStudents' = {}
    /\ attendanceRecords' = {}
    /\ Quiet
    /\ UNCHANGED <<envVars, userId, navVars, setVars, flightVars, meetVars,
                   dashVars, bimesterVars>>

\* ------------------------------------------------------ classroom detail
\* fetchData answers: studentsData || [] and attData || []
fetchData(studentsOk, attendanceOk) ==
    /\ view = "CLASSROOM_REPORT_DETAIL"
    /\ detailStudents' =
           IF studentsOk THEN StudentsOf(selectedClassroom.id) ELSE {}
    /\ attendanceRecords' =
           IF attendanceOk
           THEN {a \in attendanceTable :
                    /\ a.classroom_id = ClassroomKey(selectedClassroom.id)
                    /\ InRange(a, reportConfig.range, reportConfig.date,
                               reportConfig.endDate)}
           ELSE {}
    /\ toast' = NoToast
    /\ ev' = [NoEv EXCEPT !.op = "detail", !.ok = studentsOk /\ attendanceOk]
    /\ UNCHANGED <<latest, lastRecords>>
    /\ UNCHANGED <<envVars, appVars, navVars, setVars, flightVars, meetVars,
                   dashVars, selectedClassroom, reportConfig, appliedFilters,
                   classroomStats, bimesterVars>>

isMultiDay == reportConfig.range # "Día"

\* faulty variant: the dates of the range stand in for the student's records
AggregateOverDays(present, studentRecords) ==
    Round(present * 100, Cardinality({a.date : a \in attendanceRecords}))

\* Math.round((present / studentRecords.length) * 100)
Aggregate(present, studentRecords) ==
    Round(present * 100, Cardinality(studentRecords))

\* getAggregateAttendance(studentId)
getAggregateAttendance(studentId) ==
    LET studentRecords == {a \in attendanceRecords : a.student_id = studentId}
        present ==
            Cardinality({a \in studentRecords : IsPresentEquivalent(a.status)})
    IN  IF Cardinality(studentRecords) = 0
        THEN 0
        ELSE Aggregate(present, studentRecords)

presentCount ==
    Cardinality({a \in attendanceRecords : IsPresentEquivalent(a.status)})
absenceCount ==
    Cardinality({a \in attendanceRecords : IsAbsentEquivalent(a.status)})
totalStudents == Cardinality(detailStudents)

\* faulty variant: the dates of the range are not counted
DaysOfOne(records) == 1

\* isMultiDay ? (new Set(attendanceRecords.map(a => a.date)).size || 1) : 1
DaysOf(records) ==
    IF isMultiDay
    THEN IF Cardinality({a.date : a \in records}) = 0
         THEN 1
         ELSE Cardinality({a.date : a \in records})
    ELSE 1

globalPercentage ==
    IF totalStudents > 0
    THEN Round(presentCount * 100, totalStudents * DaysOf(attendanceRecords))
    ELSE 0

\* the percentage of the header card: globalPercentage for a range, and for
\* one day Math.round((presentCount / (totalStudents || 1)) * 100)
shownPercentage ==
    IF isMultiDay
    THEN globalPercentage
    ELSE Round(presentCount * 100,
               IF totalStudents = 0 THEN 1 ELSE totalStudents)

\* ------------------------------------------------------ classroom routes
\* onSelectClassroom of the route /: entry i of the Dashboard list
onSelectClassroom(i) ==
    /\ view = "DASHBOARD"
    /\ i \in 1..Len(assignedClassrooms)
    /\ selectedClassroom' = assignedClassrooms[i]
    /\ view' = "ATTENDANCE_SHEET"
    /\ Quiet
    /\ UNCHANGED <<envVars, userId, navVars, setVars, flightVars, meetVars,
                   dashVars, reportConfig, appliedFilters, classroomStats,
                   detailStudents, attendanceRecords, bimesterVars>>

\* onViewReport of the sheet: the route /reporte-bimestral
onViewReport ==
    /\ view = "ATTENDANCE_SHEET"
    /\ view' = "BIMESTER_REPORT"
    /\ Quiet
    /\ UNCHANGED <<envVars, userId, navVars, setVars, flightVars, meetVars,
                   dashVars, reportVars>>

\* onBack of the bimester report: the route /asistencia
BimesterBack ==
    /\ view = "BIMESTER_REPORT"
    /\ view' = "ATTENDANCE_SHEET"
    /\ UnmountBimesterReport
    /\ Quiet
    /\ UNCHANGED <<envVars, userId, navVars, setVars, flightVars, meetVars,
                   dashVars, selectedClassroom, reportConfig, appliedFilters,
                   classroomStats, detailStudents, attendanceRecords>>

\* ------------------------------------------------------- bimester report
\* the dates of a bimester run, day 0 of which is a Friday
BimesterDates == 0..MaxBimesterDay
WeekdayOfDay0 == 5

\* Date.prototype.getDay of a local date: 0 is Sunday, 6 is Saturday
getDay(localDate) == (localDate + WeekdayOfDay0) % 7

\* faulty variant: the local date is the date of the string, in every zone
SameDate(d) == d

\* the local date at the instant new Date('YYYY-MM-DD') denotes, which is
\* the UTC midnight of date d: west of Greenwich it is the evening before
UtcMidnightToLocal(d) == IF tz = "west" THEN d - 1 ELSE d

RECURSIVE DaysFrom(_, _)
\* the while loop of days: current runs over the UTC midnights from start to
\* end, getDay reads its local date, toISOString its UTC date
DaysFrom(current, end) ==
    IF current > end
    THEN <<>>
    ELSE (IF getDay(UtcMidnightToLocal(current)) # 0
             /\ getDay(UtcMidnightToLocal(current)) # 6
          THEN <<current>>
          ELSE <<>>) \o DaysFrom(current + 1, end)

days ==
    IF selectedBimestre = NoBimestre
    THEN <<>>
    ELSE DaysFrom(selectedBimestre.start_date, selectedBimestre.end_date)

\* statusMap[record.status] || 'P'
StatusLetter(status) ==
    CASE status = PRESENT -> "P"
      [] status = LATE -> "T"
      [] status = ABSENT -> "F"
      [] status = JUSTIFIED -> "J"
      [] OTHER -> "P"

\* faulty variant: every day of the axis counts, recorded or not
TotalPossibleAll(studentAttendance) == Len(days)

\* days.filter(d => studentAttendance[d]).length
TotalPossible(studentAttendance) ==
    Cardinality({i \in 1..Len(days) :
                    \E r \in studentAttendance : r.date = days[i]})

\* presentDays, totalPossible and percentage of a row of the table
BimesterPercentage(studentId) ==
    LET studentAttendance ==
            {r \in bimesterAttendance : r.student_id = studentId}
        presentDays ==
            Cardinality({r \in studentAttendance : r.letter \in {"P", "T"}})
        totalPossible == TotalPossible(studentAttendance)
    IN  IF totalPossible > 0 THEN Round(presentDays * 100, totalPossible) ELSE 0

\* fetchInitialData answers: bData || [] with its first row selected, and
\* sData || []
fetchInitialData(bimestresOk, studentsOk) ==
    /\ view = "BIMESTER_REPORT"
    /\ bimestres' = IF bimestresOk THEN bimestreRows ELSE <<>>
    /\ selectedBimestre' =
           IF bimestresOk /\ Len(bimestreRows) > 0
           THEN bimestreRows[1]
           ELSE selectedBimestre
    /\ bimesterStudents' =
           IF studentsOk THEN StudentsOf(selectedClassroom.id) ELSE {}
    /\ toast' = NoToast
    /\ ev' = [NoEv EXCEPT !.op = "bimestres", !.ok = bimestresOk /\ studentsOk]
    /\ UNCHANGED <<latest, lastRecords>>
    /\ UNCHANGED <<envVars, appVars, navVars, setVars, flightVars, meetVars,
                   dashVars, selectedClassroom, reportConfig, appliedFilters,
                   classroomStats, detailStudents, attendanceRecords,
                   bimestreRows, bimesterAttendance>>

\* the button of bimester i of the list
setSelectedBimestre(i) ==
    /\ view = "BIMESTER_REPORT"
    /\ i \in 1..Len(bimestres)
    /\ selectedBimestre' = bimestres[i]
    /\ Quiet
    /\ UNCHANGED <<envVars, appVars, navVars, setVars, flightVars, meetVars,
                   dashVars, selectedClassroom, reportConfig, appliedFilters,
                   classroomStats, detailStudents, attendanceRecords,
                   bimestreRows, bimestres, bimesterStudents,
                   bimesterAttendance>>

\* fetchAttendance of the selected bimester answers: (data || []) grouped by
\* student and date
fetchAttendance(ok) ==
    /\ view = "BIMESTER_REPORT"
    /\ selectedBimestre # NoBimestre
    /\ bimesterAttendance' =
           IF ok
           THEN {[student_id |-> a.student_id, date |-> a.date,
                  letter |-> StatusLetter(a.status)] :
                   a \in {x \in attendanceTable :
                             /\ x.classroom_id = ClassroomKey(selectedClassroom.id)
                             /\ x.date >= selectedBimestre.start_date
                             /\ x.date <= selectedBimestre.end_date}}
           ELSE {}
    /\ toast' = NoToast
    /\ ev' = [NoEv EXCEPT !.op = "bimester", !.ok = ok]
    /\ UNCHANGED <<latest, lastRecords>>
    /\ UNCHANGED <<envVars, appVars, navVars, setVars, flightVars, meetVars,
                   dashVars, selectedClassroom, reportConfig, appliedFilters,
                   classroomStats, detailStudents, attendanceRecords,
                   bimestreRows, bimestres, selectedBimestre, bimesterStudents>>

\* ---------------------------------------------------------- specification
\* the state of the routes before anything is mounted
InitViews ==
    /\ utcDate = StartDay
    /\ clock = 0
    /\ selectedClassroom = NoClassroom
    /\ reportConfig = [date |-> StartDay, range |-> "Día", endDate |-> NoDate]
    /\ appliedFilters = NoFilters
    /\ classroomStats = <<>>
    /\ detailStudents = {} /\ attendanceRecords = {}
    /\ bimestres = <<>> /\ selectedBimestre = NoBimestre
    /\ bimesterStudents = {} /\ bimesterAttendance = {}
    /\ view = "DASHBOARD"
    /\ userId = "u1"
    /\ toast = NoToast
    /\ today = 0 /\ selectedDate = 0 /\ calendarMonth = 0
    /\ showCalendar = FALSE /\ datesWithAttendance = {}
    /\ students = {} /\ attendance = EmptyMap /\ notes = EmptyMap
    /\ loading = FALSE /\ saving = FALSE /\ filledByInfo = NoInfo
    /\ loads = {} /\ dateQueries = {} /\ saves = {}
    /\ ev = NoEv
    /\ latest = [d \in Days |-> [by |-> "nobody", at |-> -1, resave |-> FALSE]]
    /\ lastRecords = {}
    /\ meetingAttendance = {}
    /\ selectedMeeting = [id |-> 0, date |-> 0] /\ activeMeeting = NoMeeting
    /\ assignedClassrooms = <<>> /\ classrooms = <<>>

\* the routes over an empty attendance table
InitSheet ==
    /\ attendanceTable = {}
    /\ bimestreRows = <<>>
    /\ meetings = {}
    /\ InitViews

\* a teacher and a classrooms table that the runs do not read
InitUser ==
    /\ user = [role |-> "Docente", assignments |-> {}]
    /\ classroomRows = <<>>

\* the daily sheet used by every staff member in one time zone
Init ==
    /\ tz = "west"
    /\ enrolled = Students
    /\ staff = Users
    /\ InitSheet
    /\ InitUser

Next ==
    \/ \E u \in staff : OpenSheet(u)
    \/ LeaveSheet
    \/ goToPreviousDay
    \/ goToNextDay
    \/ goToToday
    \/ \E l \in loads, ok \in BOOLEAN : StudentsResponse(l, ok)
    \/ \E l \in loads, ok \in BOOLEAN : AttendanceResponse(l, ok)
    \/ \E id \in Students, status \in StatusButtons : setStatus(id, status)
    \/ markAllPresent
    \/ SaveEmpty
    \/ SaveClick
    \/ \E q \in saves, ok \in BOOLEAN : SaveResponse(q, ok)

Spec == Init /\ [][Next]_vars

\* one staff member, one student, any time zone, days passing: navigation
InitNav ==
    /\ tz \in Zones
    /\ enrolled = {"s1"}
    /\ staff = {"u1"}
    /\ InitSheet
    /\ InitUser

NextNav ==
    \/ \E u \in staff : OpenSheet(u)
    \/ LeaveSheet
    \/ goToPreviousDay
    \/ goToNextDay
    \/ goToToday
    \/ ToggleCalendar
    \/ CalendarPrevMonth
    \/ CalendarNextMonth
    \/ \E d \in 0..(MaxDay + DaysPerMonth) : PickDay(d)
    \/ Tick
    \/ \E l \in loads, ok \in BOOLEAN : StudentsResponse(l, ok)
    \/ \E l \in loads, ok \in BOOLEAN : AttendanceResponse(l, ok)
    \/ \E m \in dateQueries, ok \in BOOLEAN : DatesResponse(m, ok)
    \/ \E id \in Students : setStatus(id, PRESENT)
    \/ SaveEmpty
    \/ SaveClick
    \/ \E q \in saves, ok \in BOOLEAN : SaveResponse(q, ok)

SpecNav == InitNav /\ [][NextNav]_vars

\* the meetings of one classroom: created, opened, filled in and saved
InitMeeting ==
    /\ tz = "west"
    /\ enrolled = {"s1"}
    /\ staff = {"u1"}
    /\ InitSheet
    /\ InitUser

NextMeeting ==
    \/ OpenMeetings
    \/ \E meetingDate \in Days, ok \in BOOLEAN : handleCreateMeeting(meetingDate, ok)
    \/ \E meeting \in meetings : onViewMeetingDetail(meeting)
    \/ onEditAttendance
    \/ MeetingSheetBack
    \/ \E l \in loads, ok \in BOOLEAN : MeetingInitResponse(l, ok)
    \/ \E l \in loads, ok \in BOOLEAN : MeetingStudentsResponse(l, ok)
    \/ \E l \in loads, ok \in BOOLEAN : MeetingQueryResponse(l, ok)
    \/ \E l \in loads, ok \in BOOLEAN : MeetingAttendanceResponse(l, ok)
    \/ \E studentId \in Students : toggleAttendance(studentId)
    \* the options of the select that the runs choose
    \/ \E studentId \in Students, type \in {"padre", "madre"} :
          setFamilyMember(studentId, type)
    \/ MeetingGoToPreviousDay
    \/ MeetingGoToNextDay
    \/ MeetingGoToToday
    \/ MeetingSaveClick
    \/ \E q \in saves, ok \in BOOLEAN : MeetingDeleteResponse(q, ok)
    \/ \E q \in saves, ok \in BOOLEAN : MeetingInsertResponse(q, ok)

SpecMeeting == InitMeeting /\ [][NextMeeting]_vars

\* any staff member over any classrooms table: what each list shows
InitVisible ==
    /\ tz = "west"
    /\ enrolled = {"s1"}
    /\ staff = {"u1"}
    /\ InitSheet
    /\ user \in [role : UserRole, assignments : SUBSET Assignments]
    /\ classroomRows \in ClassroomTables

NextVisible ==
    \/ \E ok \in BOOLEAN : DashboardFetchClassrooms(ok)
    \/ OpenMeetings
    \/ \E ok \in BOOLEAN : MeetingsFetchClassrooms(ok)
    \/ OpenDashboard

SpecVisible == InitVisible /\ [][NextVisible]_vars

\* the classroom routes: any staff member over any classrooms table
NextRoutes ==
    \/ \E ok \in BOOLEAN : DashboardFetchClassrooms(ok)
    \/ \E i \in 1..MaxClassrooms : onSelectClassroom(i)
    \/ LeaveSheet
    \/ onViewReport
    \/ BimesterBack
    \/ \E ok \in BOOLEAN : OpenReports(ok)
    \/ \E i \in 1..MaxClassrooms : handleClassroomClick(i)
    \/ \E studentsOk, attendanceOk \in BOOLEAN : fetchData(studentsOk, attendanceOk)
    \/ OpenDashboard

SpecRoutes == InitVisible /\ [][NextRoutes]_vars

\* a stored row of the report runs
ReportRow(s, c, d, st) ==
    [student_id |-> s, classroom_id |-> c, date |-> d, status |-> st,
     attendance_type_id |-> StatusCode(st), notes |-> NONE,
     created_by |-> "u1", created_at |-> 0]

RECURSIVE TablesUpTo(_, _)
\* the tables of up to n of the rows, (student_id, date) a key
TablesUpTo(rows, n) ==
    IF n = 0
    THEN {{}}
    ELSE LET smaller == TablesUpTo(rows, n - 1)
         IN  smaller \cup
             UNION {{t \cup {r} :
                        r \in {x \in rows : \A y \in t : ~SameKey(x, y)}}
                    : t \in smaller}

\* the reports of an administrator over two active classrooms.  The sheet of
\* the classroom can have stored any status of s1 on any date and of s2 on
\* day 0, and a row of a student who has left it since; the other classroom
\* has a row of its student
InitReports ==
    /\ tz = "west"
    /\ enrolled \in {{}, {"s1"}, Students}
    /\ staff = Users
    /\ attendanceTable \in
          {t \cup {ReportRow("s3", "c2", 0, PRESENT)} :
              t \in TablesUpTo(
                       {ReportRow("s1", ClassroomId, d, st) :
                           d \in ReportDates, st \in AttendanceStatus}
                       \cup {ReportRow("s2", ClassroomId, 0, st) :
                                st \in AttendanceStatus}
                       \cup {ReportRow("s0", ClassroomId, 0, PRESENT)},
                       MaxRows)}
    /\ bimestreRows = <<>>
    /\ meetings = {}
    /\ InitViews
    /\ user = [role |-> "Administrador", assignments |-> {}]
    /\ classroomRows = <<[id |-> 1, level |-> Primaria, active |-> TRUE],
                         [id |-> 2, level |-> Inicial, active |-> TRUE]>>

\* one visit: from the dashboard to the list, from the list to a detail report
NextReports ==
    \/ \E ok \in BOOLEAN : view = "DASHBOARD" /\ OpenReports(ok)
    \/ \E f \in Filters, ok \in BOOLEAN : handleApplyFilters(f, ok)
    \/ \E i \in 1..MaxClassrooms : handleClassroomClick(i)
    \/ \E studentsOk, attendanceOk \in BOOLEAN : fetchData(studentsOk, attendanceOk)

SpecReports == InitReports /\ [][NextReports]_vars

\* the bimester report of the classroom, in any time zone: the table of
\* bimesters holds any span of dates, then the span of all dates, and the
\* sheet has stored rows of s1 on dates of the run
InitBimester ==
    /\ tz \in Zones
    /\ enrolled = {"s1"}
    /\ staff = Users
    /\ attendanceTable \in
          TablesUpTo({ReportRow("s1", ClassroomId, d, st) :
                         d \in BimesterDates, st \in AttendanceStatus},
                     MaxBimesterRows)
    /\ bimestreRows \in
          {<<b, [start_date |-> 0, end_date |-> MaxBimesterDay]>> :
              b \in [start_date : BimesterDates, end_date : BimesterDates]}
    /\ meetings = {}
    /\ InitViews
    /\ user = [role |-> "Administrador", assignments |-> {}]
    /\ classroomRows = <<[id |-> 1, level |-> Primaria, active |-> TRUE]>>

NextBimester ==
    \/ \E ok \in BOOLEAN : DashboardFetchClassrooms(ok)
    \/ \E i \in 1..MaxClassrooms : onSelectClassroom(i)
    \/ onViewReport
    \/ BimesterBack
    \/ \E bimestresOk, studentsOk \in BOOLEAN :
          fetchInitialData(bimestresOk, studentsOk)
    \/ \E i \in 1..2 : setSelectedBimestre(i)
    \/ \E ok \in BOOLEAN : fetchAttendance(ok)

SpecBimester == InitBimester /\ [][NextBimester]_vars


\* two staff members at the sheet of one classroom, each in a browser, over a
\* table that holds one row: s1 was LATE on the day before the start
InitEditors ==
    /\ tz = "west"
    /\ enrolled = {"s1"}
    /\ staff = Users
    /\ attendanceTable = {ReportRow("s1", ClassroomId, StartDay - 1, LATE)}
    /\ bimestreRows = <<>>
    /\ meetings = {}
    /\ InitViews
    /\ InitUser

NextEditors ==
    \/ \E u \in staff : OpenSheet(u)
    \/ \E u \in staff : OpenSheetBeside(u)
    \/ LeaveSheet
    \/ goToPreviousDay
    \/ goToNextDay
    \/ \E l \in loads, ok \in BOOLEAN : StudentsResponse(l, ok)
    \/ \E l \in loads, ok \in BOOLEAN : AttendanceResponse(l, ok)
    \/ \E id \in Students, status \in StatusButtons : setStatus(id, status)
    \/ SaveClick
    \/ \E q \in saves, ok \in BOOLEAN : SaveResponse(q, ok)

SpecEditors == InitEditors /\ [][NextEditors]_vars


\* a classroom of two students with two meetings stored, one on the day
\* before the start and one on the start day.  A meeting is saved from two
\* sheets: a sheet left with its save in flight is followed by a sheet opened
\* on the same meeting, as when two staff members each have the meeting open
InitPair ==
    /\ tz = "west"
    /\ enrolled = Students
    /\ staff = {"u1"}
    /\ attendanceTable = {}
    /\ bimestreRows = <<>>
    /\ meetings = {[id |-> 1, date |-> StartDay - 1, classroom_id |-> ClassroomId],
                   [id |-> 2, date |-> StartDay, classroom_id |-> ClassroomId]}
    /\ InitViews
    /\ InitUser

NextPair ==
    \/ OpenMeetings
    \/ \E meeting \in meetings : onViewMeetingDetail(meeting)
    \/ onEditAttendance
    \/ MeetingSheetBack
    \/ \E l \in loads, ok \in BOOLEAN : MeetingInitResponse(l, ok)
    \/ \E l \in loads, ok \in BOOLEAN : MeetingStudentsResponse(l, ok)
    \/ \E l \in loads, ok \in BOOLEAN : MeetingQueryResponse(l, ok)
    \/ \E l \in loads, ok \in BOOLEAN : MeetingAttendanceResponse(l, ok)
    \/ \E studentId \in Students : toggleAttendance(studentId)
    \/ MeetingSaveClick
    \/ \E q \in saves, ok \in BOOLEAN : MeetingDeleteResponse(q, ok)
    \/ \E q \in saves, ok \in BOOLEAN : MeetingInsertResponse(q, ok)

SpecPair == InitPair /\ [][NextPair]_vars

\* the daily sheet of a classroom of two students used by one staff member,
\* with the marked-dates query and the "Marcar todos" button
InitFrame ==
    /\ tz = "west"
    /\ enrolled = Students
    /\ staff = {"u1"}
    /\ InitSheet
    /\ InitUser

NextFrame ==
    \/ \E u \in staff : OpenSheet(u)
    \/ LeaveSheet
    \/ goToPreviousDay
    \/ goToNextDay
    \/ \E l \in loads, ok \in BOOLEAN : StudentsResponse(l, ok)
    \/ \E l \in loads, ok \in BOOLEAN : AttendanceResponse(l, ok)
    \/ \E m \in dateQueries, ok \in BOOLEAN : DatesResponse(m, ok)
    \/ \E id \in Students, status \in StatusButtons : setStatus(id, status)
    \/ markAllPresent
    \/ SaveClick
    \/ \E q \in saves, ok \in BOOLEAN : SaveResponse(q, ok)

SpecFrame == InitFrame /\ [][NextFrame]_vars

\* both sheets of one classroom used in turn by one staff member, with every
\* call of a save answered in the end: a meeting of the day before and one
\* of today are stored
InitLive ==
    /\ tz = "west"
    /\ enrolled = {"s1"}
    /\ staff = {"u1"}
    /\ attendanceTable = {}
    /\ bimestreRows = <<>>
    /\ meetings = {[id |-> 1, date |-> StartDay - 1, classroom_id |-> ClassroomId],
                   [id |-> 2, date |-> StartDay, classroom_id |-> ClassroomId]}
    /\ InitViews
    /\ InitUser

\* the upsert calls of the daily sheet carry the staff member (by), the calls
\* of the meeting sheet their phase
NextLive ==
    \/ \E u \in staff : OpenSheet(u)
    \/ LeaveSheet
    \/ goToPreviousDay
    \/ \E l \in loads, ok \in BOOLEAN : StudentsResponse(l, ok)
    \/ \E l \in loads, ok \in BOOLEAN : AttendanceResponse(l, ok)
    \/ \E id \in Students, status \in StatusButtons : setStatus(id, status)
    \/ SaveClick
    \/ \E q \in {x \in saves : "by" \in DOMAIN x}, ok \in BOOLEAN :
          SaveResponse(q, ok)
    \/ OpenMeetings
    \/ OpenDashboard
    \/ \E meeting \in meetings : onViewMeetingDetail(meeting)
    \/ onEditAttendance
    \/ MeetingSheetBack
    \/ \E l \in loads, ok \in BOOLEAN : MeetingInitResponse(l, ok)
    \/ \E l \in loads, ok \in BOOLEAN : MeetingStudentsResponse(l, ok)
    \/ \E l \in loads, ok \in BOOLEAN : MeetingQueryResponse(l, ok)
    \/ \E l \in loads, ok \in BOOLEAN : MeetingAttendanceResponse(l, ok)
    \/ \E studentId \in Students : toggleAttendance(studentId)
    \/ MeetingSaveClick
    \/ \E q \in {x \in saves : "phase" \in DOMAIN x}, ok \in BOOLEAN :
          MeetingDeleteResponse(q, ok)
    \/ \E q \in {x \in saves : "phase" \in DOMAIN x}, ok \in BOOLEAN :
          MeetingInsertResponse(q, ok)

\* an awaited call of the store is answered, with its data or with an error
SpecLive ==
    /\ InitLive
    /\ [][NextLive]_vars
    /\ WF_vars(\E q \in {x \in saves : "by" \in DOMAIN x}, ok \in BOOLEAN :
          SaveResponse(q, ok))
    /\ WF_vars(\E q \in {x \in saves : "phase" \in DOMAIN x}, ok \in BOOLEAN :
          MeetingDeleteResponse(q, ok))
    /\ WF_vars(\E q \in {x \in saves : "phase" \in DOMAIN x}, ok \in BOOLEAN :
          MeetingInsertResponse(q, ok))


\* ================================================================ claims

\* C1: the attendance table holds at most one row per (student_id, date), and
\* after a committed save every record of its payload is the one row of its
\* key, with the payload's status.
C1_OneRowPerStudentDate ==
    /\ \A x, y \in attendanceTable : SameKey(x, y) => x = y
    /\ (ev.op = "save" /\ ev.ok) =>
          \A r \in ev.records :
             \E x \in attendanceTable : SameKey(x, r) /\ x.status = r.status

\* a committed save has replaced the status of a row that existed
C1_Witness ==
    /\ ev.op = "save" /\ ev.ok
    /\ ev.changed # {}
    /\ Cardinality(attendanceTable) > Cardinality(ev.records)

\* C2: on the daily sheet the selected date is never after today, and no load
\* in flight, no upsert call in flight and no stored row is for a date after
\* today.
C2_NoFutureDate ==
    /\ OnSheet => /\ selectedDate <= today
                  /\ today <= utcDate
                  /\ \A l \in loads : l.date <= today
    /\ \A q \in saves : q.date <= utcDate /\ \A r \in q.records : r.date <= utcDate
    /\ \A x \in attendanceTable : x.date <= utcDate

\* after a calendar pick east of Greenwich and a day passing, a save is in
\* flight for the selected date
C2_Witness ==
    /\ OnSheet /\ tz = "east"
    /\ utcDate = MaxDay
    /\ selectedDate = today - 1
    /\ saves # {}
    /\ attendanceTable # {}

\* C4: a save asked for while the in-memory set is empty issues no upsert
\* call, leaves the table and the in-memory set as they are and raises an
\* error toast.
C4_EmptySaveFails ==
    [][(OnSheet /\ ~saving /\ Keys(attendance) = {}) =>
          /\ saves' \subseteq saves
          /\ attendanceTable' = attendanceTable
          /\ ev'.op = "empty" =>
                /\ toast'.type = "error"
                /\ attendance' = attendance /\ notes' = notes
                /\ filledByInfo' = filledByInfo /\ saving' = saving]_vars

\* an empty save was refused over a table that holds rows
C4_Witness ==
    /\ ev.op = "empty"
    /\ toast.type = "error"
    /\ attendanceTable # {}
    /\ Keys(attendance) = {}

\* C6: a save is one upsert call with one record per entry of the set; a
\* failed call leaves every row as it was, a committed call leaves every
\* record of the payload stored with its status, and nothing else changes
\* the table.
C6_SaveAtomic ==
    [][/\ (saving' /\ ~saving) =>
             \E q \in saves' :
                /\ saves' = saves \cup {q} /\ q \notin saves
                /\ {r.student_id : r \in q.records} = Keys(attendance)
                /\ \A r \in q.records :
                      r.status = attendance[r.student_id] /\ r.date = selectedDate
       /\ (ev'.op = "save" /\ ~ev'.ok) => attendanceTable' = attendanceTable
       /\ (ev'.op = "save" /\ ev'.ok) =>
             /\ \A r \in ev'.records :
                   \E x \in attendanceTable' : SameKey(x, r) /\ x.status = r.status
             /\ \A x \in attendanceTable :
                   x \in attendanceTable' \/ \E r \in ev'.records : SameKey(x, r)
       /\ ev'.op # "save" => attendanceTable' = attendanceTable]_vars

\* a save of two records was committed over a table that held one of them
C6_Witness ==
    /\ ev.op = "save" /\ ev.ok
    /\ Cardinality(ev.records) = 2
    /\ Cardinality(ev.changed) = 1

\* a save of two records failed over a table that held rows
C6_FailWitness ==
    /\ ev.op = "save" /\ ~ev.ok
    /\ Cardinality(ev.records) = 2
    /\ attendanceTable # {}

\* C8: a committed save whose payload is the payload of the last committed
\* save leaves the table as that save left it.
C8_SaveIdempotent ==
    [][(ev'.op = "save" /\ ev'.ok /\ ev'.records = lastRecords) =>
          attendanceTable' = attendanceTable]_vars

\* the same payload was committed twice in a row
C8_Witness ==
    /\ ev.op = "save" /\ ev.ok /\ ev.repeat
    /\ ev.records # {}

\* C9: once a date has been saved again by another staff member, the
\* provenance the sheet shows for that date names the latest saver and the
\* moment of the latest save, right after the save and after a later load.
C9_ProvenanceIsLatest ==
    (/\ OnSheet
     /\ ev.op \in {"save", "load"} /\ ev.ok /\ ev.live
     /\ ev.date = selectedDate
     /\ latest[ev.date].resave)
    => filledByInfo = [name |-> FullName(latest[ev.date].by),
                       time |-> latest[ev.date].at]

\* the part of C9 that the sheet keeps: right after the save
C9_AfterSave ==
    (/\ OnSheet
     /\ ev.op = "save" /\ ev.ok /\ ev.live
     /\ latest[ev.date].resave)
    => filledByInfo = [name |-> FullName(latest[ev.date].by),
                       time |-> latest[ev.date].at]

\* a load after a resave by another staff member
C9_Reloaded ==
    /\ OnSheet
    /\ ev.op = "load" /\ ev.ok /\ ev.date = selectedDate
    /\ latest[ev.date].resave
    /\ filledByInfo.name # FullName(latest[ev.date].by)

\* C3: on the meeting sheet the selected date is never after today, and no
\* save commits attendance for a meeting dated after today.
C3_NoFutureMeetingDate ==
    /\ OnMeetingSheet => selectedDate <= today
    /\ (ev.op = "msave" /\ ev.ok /\ ev.records # {}) => ev.date <= utcDate

\* attendance is stored for a meeting dated after today
C3_FutureMeetingSaved ==
    \E x \in meetingAttendance :
       \E m \in meetings : m.id = x.meeting_id /\ m.date > utcDate

C7_FailedMeetingSaveKeepsRecords ==
    (ev.op = "msave" /\ ~ev.ok) =>
       MeetingRowsOf(meetingAttendance, ev.meeting) = ev.before

\* a failed meeting save has left the meeting without its records
C7_RecordsLost ==
    /\ ev.op = "msave" /\ ~ev.ok
    /\ ev.before # {} /\ ev.deleted
    /\ MeetingRowsOf(meetingAttendance, ev.meeting) = {}

\* C10: the list a view shows once its fetch has answered holds every
\* classroom fetched when the role is Administrador or Supervisor, and
\* otherwise the classrooms fetched for which some assignment names the
\* classroom's id or the classroom's level, and no other; with no assignment
\* it is empty.
C10_VisibleClassrooms ==
    (ev.op = "classrooms" /\ ev.ok) =>
       LET shown == IF view = "DASHBOARD" THEN assignedClassrooms ELSE classrooms
           listed == {shown[i] : i \in 1..Len(shown)}
           fetched == {[id |-> toString(classroomRows[i].id),
                        level |-> [first |-> toUpperCase(classroomRows[i].level.first),
                                   rest |-> classroomRows[i].level.rest]] :
                          i \in {k \in 1..Len(classroomRows) :
                                    classroomRows[k].active}}
           all == user.role \in {"Administrador", "Supervisor"}
       IN  /\ listed \subseteq fetched
           /\ Len(shown) = Cardinality(listed)
           /\ \A c \in fetched :
                 c \in listed <=>
                    \/ all
                    \/ \E a \in user.assignments :
                          a.classroomId = c.id \/ a.level = c.level
           /\ (user.assignments = {} /\ ~all) => shown = <<>>

\* a teacher assigned to a level sees the classroom of that level, stored in
\* lower case, and not the other classroom
C10_Witness ==
    /\ ev.op = "classrooms" /\ ev.ok
    /\ view = "MEETINGS"
    /\ user.role = "Docente"
    /\ user.assignments = {[classroomId |-> "undefined", level |-> Primaria]}
    /\ Len(classroomRows) = 2
    /\ \A i \in 1..2 : classroomRows[i].active
    /\ Len(classrooms) = 1
    /\ classrooms[1].level = Primaria
    /\ \E i \in 1..2 : classroomRows[i].level = [first |-> "p", rest |-> "rimaria"]
                       /\ toString(classroomRows[i].id) = classrooms[1].id

\* C11: a staff member who is neither Administrador nor Supervisor is on no
\* route shown attendance data of a classroom outside the visible set: the
\* Reports list holds visible classrooms only, and the classroom handed to
\* the sheet, the bimester report and the detail report is a visible one.
C11_OnlyVisibleClassrooms ==
    LET visible(id, level) ==
            \E a \in user.assignments :
                \/ a.classroomId = id
                \/ a.level = [first |-> toUpperCase(level.first),
                              rest |-> level.rest]
    IN  user.role \notin {"Administrador", "Supervisor"} =>
           /\ view = "REPORTS" =>
                 \A i \in 1..Len(classroomStats) :
                    visible(toString(classroomStats[i].id),
                            classroomStats[i].level)
           /\ view \in {"ATTENDANCE_SHEET", "BIMESTER_REPORT",
                        "CLASSROOM_REPORT_DETAIL"} =>
                 visible(selectedClassroom.id, selectedClassroom.level)

\* a teacher with no assignment has the detail report of a classroom loaded
C11_DetailOfUnassigned ==
    /\ user.role = "Docente"
    /\ user.assignments = {}
    /\ view = "CLASSROOM_REPORT_DETAIL"
    /\ ev.op = "detail" /\ ev.ok
    /\ selectedClassroom.id = "1"

\* C12: for range Día the Reports list gives, for every active classroom,
\* presentCount = the number of PRESENT or LATE rows of the classroom on the
\* date, absentCount = the number of ABSENT or JUSTIFIED rows, and, when
\* there is a row, percentage = presentCount / (presentCount + absentCount)
\* x 100 rounded to one decimal (halves up), held here in tenths.
C12_SingleDayStats ==
    (ev.op = "stats" /\ ev.ok /\ appliedFilters.range = "Día") =>
       /\ Len(classroomStats) = 2
       /\ \A i \in 1..Len(classroomStats) :
             LET c == classroomStats[i]
                 rows == {a \in attendanceTable :
                             /\ a.date = appliedFilters.startDate
                             /\ a.classroom_id = ClassroomKey(toString(c.id))}
                 p == Cardinality({a \in rows : a.status \in {PRESENT, LATE}})
                 q == Cardinality({a \in rows : a.status \in {ABSENT, JUSTIFIED}})
             IN  /\ c.presentCount = p
                 /\ c.absentCount = q
                 /\ p + q > 0 =>
                       /\ 2 * (c.percentage * (p + q) - 1000 * p) <= p + q
                       /\ 2 * (1000 * p - c.percentage * (p + q)) < p + q

\* the set {s1: PRESENT, s2: ABSENT} of a date gives 1, 1 and 50.0
C12_Witness ==
    /\ ev.op = "stats" /\ ev.ok /\ appliedFilters.range = "Día"
    /\ {[student_id |-> a.student_id, status |-> a.status] :
           a \in {x \in attendanceTable :
                     /\ x.date = appliedFilters.startDate
                     /\ x.classroom_id = ClassroomId}}
         = {[student_id |-> "s1", status |-> PRESENT],
            [student_id |-> "s2", status |-> ABSENT]}
    /\ classroomStats[1].presentCount = 1
    /\ classroomStats[1].absentCount = 1
    /\ classroomStats[1].percentage = 500

\* C13: for range Día the percentage of the detail report is presentEquivalent
\* / (presentEquivalent + absentEquivalent) x 100 over the rows of the
\* classroom on the date, rounded to a whole number: up to rounding, the
\* value of the Reports list.
C13_DetailMatchesList ==
    (ev.op = "detail" /\ ev.ok /\ ~isMultiDay) =>
       LET rows == {a \in attendanceTable :
                       /\ a.date = reportConfig.date
                       /\ a.classroom_id = ClassroomKey(selectedClassroom.id)}
           p == Cardinality({a \in rows : a.status \in {PRESENT, LATE}})
           q == Cardinality({a \in rows : a.status \in {ABSENT, JUSTIFIED}})
       IN  p + q > 0 =>
              /\ 2 * (shownPercentage * (p + q) - 100 * p) <= p + q
              /\ 2 * (100 * p - shownPercentage * (p + q)) <= p + q

\* two students enrolled, one of them PRESENT and the other without a row:
\* the detail report shows 50 where the list shows 100.0
C13_DetailDiffers ==
    /\ ev.op = "detail" /\ ev.ok /\ ~isMultiDay
    /\ selectedClassroom.id = "1"
    /\ detailStudents = Students
    /\ \E a \in attendanceRecords : attendanceRecords = {a} /\ a.status = PRESENT
    /\ shownPercentage = 50
    /\ Percentage(presentCount, presentCount + absenceCount) = 1000

\* C14: a percentage whose denominator is zero is 0: the percentage of a
\* classroom of the Reports list without a row in the range, the completion
\* of a student without a record, and the percentage of the detail report of
\* a classroom without students or without rows.
C14_ZeroDenominatorGivesZero ==
    /\ (ev.op = "stats" /\ ev.ok) =>
          \A i \in 1..Len(classroomStats) :
             LET c == classroomStats[i]
                 rows == {a \in attendanceTable :
                             /\ InRange(a, appliedFilters.range,
                                        appliedFilters.startDate,
                                        appliedFilters.endDate)
                             /\ a.classroom_id = ClassroomKey(toString(c.id))}
             IN  rows = {} => c.percentage = 0
    /\ (ev.op = "detail" /\ ev.ok) =>
          /\ \A s \in detailStudents :
                (\A a \in attendanceRecords : a.student_id # s) =>
                    getAggregateAttendance(s) = 0
          /\ (detailStudents = {} \/ attendanceRecords = {}) =>
                shownPercentage = 0

\* range Día, no student enrolled and a PRESENT row of the date: the detail
\* report shows 100 or more
C14_NoStudentsShown ==
    /\ ev.op = "detail" /\ ev.ok /\ ~isMultiDay
    /\ detailStudents = {}
    /\ presentCount > 0
    /\ shownPercentage >= 100

\* C15 as stated: in a detail report over a range, the completion of each
\* student is exactly the number of the student's PRESENT or LATE rows in the
\* range divided by the number of the student's rows in the range, x 100,
\* and 0 for a student without a row.
C15_CompletionExact ==
    (ev.op = "detail" /\ ev.ok /\ isMultiDay) =>
       \A s \in detailStudents :
          LET rows == {a \in attendanceTable :
                          /\ a.student_id = s
                          /\ a.classroom_id = ClassroomKey(selectedClassroom.id)
                          /\ InRange(a, reportConfig.range, reportConfig.date,
                                     reportConfig.endDate)}
              n == Cardinality(rows)
              p == Cardinality({a \in rows : a.status \in {PRESENT, LATE}})
          IN  /\ n = 0 => getAggregateAttendance(s) = 0
              /\ n > 0 => getAggregateAttendance(s) * n = 100 * p

\* C15, amended: the completion is that quotient rounded to the nearest whole
\* number, halves up; the rows of other students and the dates on which the
\* student has no row do not enter it; it is 0 for a student without a row.
C15_CompletionRounded ==
    (ev.op = "detail" /\ ev.ok /\ isMultiDay) =>
       \A s \in detailStudents :
          LET rows == {a \in attendanceTable :
                          /\ a.student_id = s
                          /\ a.classroom_id = ClassroomKey(selectedClassroom.id)
                          /\ InRange(a, reportConfig.range, reportConfig.date,
                                     reportConfig.endDate)}
              n == Cardinality(rows)
              p == Cardinality({a \in rows : a.status \in {PRESENT, LATE}})
              shown == getAggregateAttendance(s)
          IN  /\ n = 0 => shown = 0
              /\ n > 0 => /\ 2 * (shown * n - 100 * p) <= n
                          /\ 2 * (100 * p - shown * n) < n

\* a student with rows on three dates, two of them present-equivalent: 67
C15_Witness ==
    /\ ev.op = "detail" /\ ev.ok /\ isMultiDay
    /\ "s1" \in detailStudents
    /\ Cardinality({a \in attendanceRecords : a.student_id = "s1"}) = 3
    /\ Cardinality({a \in attendanceRecords :
                       a.student_id = "s1" /\ a.status \in {PRESENT, LATE}}) = 2
    /\ getAggregateAttendance("s1") = 67

\* C17 as stated: in a detail report over a range, the percentage of the
\* classroom is exactly the number of present-equivalent rows of the range
\* divided by (students enrolled x distinct dates with a row), x 100, and 0
\* when the classroom has no students.
C17_AggregateExact ==
    (ev.op = "detail" /\ ev.ok /\ isMultiDay) =>
       LET rows == {a \in attendanceTable :
                       /\ a.classroom_id = ClassroomKey(selectedClassroom.id)
                       /\ InRange(a, reportConfig.range, reportConfig.date,
                                  reportConfig.endDate)}
           p == Cardinality({a \in rows : a.status \in {PRESENT, LATE}})
           n == Cardinality(StudentsOf(selectedClassroom.id))
           d == Cardinality({a.date : a \in rows})
       IN  /\ n = 0 => shownPercentage = 0
           /\ (n > 0 /\ d > 0) => shownPercentage * (n * d) = 100 * p

\* C17, amended: the percentage is that quotient rounded to the nearest whole
\* number, halves up; it is 0 when the classroom has no students and when
\* the range has no row.
C17_AggregateRounded ==
    (ev.op = "detail" /\ ev.ok /\ isMultiDay) =>
       LET rows == {a \in attendanceTable :
                       /\ a.classroom_id = ClassroomKey(selectedClassroom.id)
                       /\ InRange(a, reportConfig.range, reportConfig.date,
                                  reportConfig.endDate)}
           p == Cardinality({a \in rows : a.status \in {PRESENT, LATE}})
           n == Cardinality(StudentsOf(selectedClassroom.id))
           d == Cardinality({a.date : a \in rows})
       IN  /\ (n = 0 \/ d = 0) => shownPercentage = 0
           /\ (n > 0 /\ d > 0) =>
                 /\ 2 * (shownPercentage * (n * d) - 100 * p) <= n * d
                 /\ 2 * (100 * p - shownPercentage * (n * d)) < n * d

\* one student enrolled, rows on three dates, two of them present-equivalent:
\* the report shows 67
C17_Witness ==
    /\ ev.op = "detail" /\ ev.ok /\ isMultiDay
    /\ Cardinality(detailStudents) = 1
    /\ Cardinality({a.date : a \in attendanceRecords}) = 3
    /\ presentCount = 2
    /\ shownPercentage = 67

\* C16: once the rows of the selected bimester are loaded, the percentage of
\* each student is the number of the student's present-equivalent rows dated
\* within the bimester divided by the number of dates on which the student
\* has a row, x 100, to the nearest whole number, and lies between 0 and 100.
C16_BimesterPercentage ==
    (ev.op = "bimester" /\ ev.ok) =>
       \A s \in bimesterStudents :
          LET rows == {a \in attendanceTable :
                          /\ a.student_id = s
                          /\ a.classroom_id = ClassroomKey(selectedClassroom.id)
                          /\ a.date >= selectedBimestre.start_date
                          /\ a.date <= selectedBimestre.end_date}
              n == Cardinality({a.date : a \in rows})
              p == Cardinality({a \in rows : a.status \in {PRESENT, LATE}})
              shown == BimesterPercentage(s)
          IN  /\ shown >= 0 /\ shown <= 100
              /\ n = 0 => shown = 0
              /\ n > 0 => /\ 2 * (shown * n - 100 * p) <= n
                          /\ 2 * (100 * p - shown * n) < n

\* in the zone of UTC, a student PRESENT on a Saturday and on the Monday
\* after it is shown 200
C16_Over100 ==
    /\ ev.op = "bimester" /\ ev.ok
    /\ tz = "utc"
    /\ "s1" \in bimesterStudents
    /\ {[date |-> r.date, letter |-> r.letter] : r \in bimesterAttendance}
         = {[date |-> 1, letter |-> "P"], [date |-> 3, letter |-> "P"]}
    /\ BimesterPercentage("s1") = 200

\* C18: the day axis of the bimester table holds exactly the dates from
\* start_date to end_date that are neither a Saturday nor a Sunday, each
\* once, in ascending order.
C18_DayAxis ==
    (view = "BIMESTER_REPORT" /\ selectedBimestre # NoBimestre) =>
       /\ {days[i] : i \in 1..Len(days)} =
             {d \in selectedBimestre.start_date..selectedBimestre.end_date :
                 (d + WeekdayOfDay0) % 7 \notin {0, 6}}
       /\ \A i, j \in 1..Len(days) : i < j => days[i] < days[j]

\* west of Greenwich the axis of Friday..Tuesday is Friday, Saturday, Tuesday
C18_SaturdayOnAxis ==
    /\ view = "BIMESTER_REPORT"
    /\ tz = "west"
    /\ selectedBimestre = [start_date |-> 0, end_date |-> MaxBimesterDay]
    /\ days = <<0, 1, 4>>

\* C19 as stated: markAllPresent leaves the in-memory set with exactly one
\* entry per enrolled student of the classroom, every entry PRESENT, whatever
\* the set held before.
C19_AllEnrolledPresent ==
    [][markAllPresent =>
          /\ Keys(attendance') = enrolled
          /\ \A s \in enrolled : attendance'[s] = PRESENT]_vars

\* C19, amended: markAllPresent leaves the in-memory set with exactly one
\* entry per student of the roster the sheet holds, every entry PRESENT,
\* whatever the set held before; the roster is the enrolled students of the
\* classroom once fetchStudents has succeeded, and empty before that and
\* after a failed fetch.
C19_AllOfRosterPresent ==
    [][markAllPresent =>
          /\ Keys(attendance') = students
          /\ \A s \in students : attendance'[s] = PRESENT
          /\ students \in {{}, enrolled}]_vars

\* the roster is loaded and every student of it is PRESENT in memory, over
\* entries loaded for the date of which one is stored with another status
C19_Witness ==
    /\ OnSheet /\ ~loading
    /\ students = enrolled /\ students # {}
    /\ Keys(attendance) = students
    /\ \A s \in students : attendance[s] = PRESENT
    /\ filledByInfo # NoInfo
    /\ \E x \in RowsOf(attendanceTable, selectedDate) :
          x.student_id \in students /\ x.status # PRESENT

\* C20: when fetchExistingAttendance is answered with no rows, because
\* nothing is stored for the classroom and the date, the in-memory set and
\* the notes are empty, there is no provenance and no error is shown,
\* whatever the sheet held from the date viewed before.
C20_EmptyLoad ==
    (ev.op = "load" /\ ev.ok /\ RowsOf(attendanceTable, ev.date) = {}) =>
        /\ Keys(attendance) = {}
        /\ Keys(notes) = {}
        /\ filledByInfo = NoInfo
        /\ toast = NoToast
        /\ ~loading

\* the date shown has nothing stored and its load has just been answered,
\* after the date before it was saved from this sheet
C20_Witness ==
    /\ ev.op = "load" /\ ev.ok
    /\ ev.date = selectedDate
    /\ RowsOf(attendanceTable, ev.date) = {}
    /\ \E x \in attendanceTable :
          x.classroom_id = ClassroomId /\ x.date = selectedDate + 1
    /\ loads = {}

\* C21: day navigation of the daily sheet has the two states Today
\* (selectedDate = today) and PastDate, Today initial: from Today the selected
\* date never moves forward; PastDate is entered from Today only by
\* goToPreviousDay or a calendar pick; goToToday selects today and sets the
\* calendar month to the current month.
C21_DayNavigation ==
    [][/\ (\E u \in staff : OpenSheet(u)) => selectedDate' = today'
       /\ (OnSheet /\ OnSheet' /\ isToday) =>
              /\ selectedDate' <= selectedDate
              /\ selectedDate' < today' =>
                     (goToPreviousDay \/ \E d \in 0..(MaxDay + DaysPerMonth) : PickDay(d))
       /\ goToToday =>
              /\ selectedDate' = today'
              /\ calendarMonth' \in {MonthOf(ld) : ld \in LocalDates(utcDate)}]_vars

\* the sheet still holds the today of its last render after midnight UTC has
\* passed, with the date selected that was today then
C21_StaleToday ==
    /\ OnSheet /\ isToday
    /\ today < utcDate
    /\ loads = {}

\* C22: within one session of the daily sheet at most one call to the store
\* is outstanding: the loads, the marked-dates queries and the saves of the
\* mounted sheet that are not yet answered are never more than one.
C22_OneCallOutstanding ==
    OnSheet =>
        Cardinality(loads) + Cardinality(dateQueries)
            + Cardinality({q \in saves : q.live}) <= 1

\* a load, a marked-dates query and a save of the mounted sheet are all
\* waiting for their answers
C22_ThreeOutstanding ==
    /\ OnSheet
    /\ loads # {} /\ dateQueries # {}
    /\ \E q \in saves : q.live

\* C23: every failed store call of the daily sheet is surfaced: when the load
\* of an observation set or the upsert of a save of the mounted sheet has
\* failed, the step that takes the answer raises an error toast.
C23_FailureSurfaced ==
    (ev.op \in {"load", "save"} /\ ev.live /\ ~ev.ok) => toast.type = "error"

\* the load for the date shown has failed without a toast, and the sheet has
\* stopped loading with entries in memory although nothing is stored for the
\* date
C23_LoadFailureSwallowed ==
    /\ OnSheet
    /\ ev.op = "load" /\ ~ev.ok /\ ev.date = selectedDate
    /\ toast = NoToast
    /\ ~loading
    /\ Keys(attendance) # {}
    /\ RowsOf(attendanceTable, selectedDate) = {}

\* C24: when two staff members save the same date of the classroom at the
\* same time, each upsert the store applies leaves every record of its
\* payload as the one row of its key, with the status and the recorder of
\* that payload, and leaves every other row as it was: after both, each row
\* holds what the save applied last to it wrote, with no second row for a key
\* and no row lost.
C24_LastWriteWins ==
    [][(ev'.op = "save" /\ ev'.ok) =>
          /\ \A r \in ev'.records :
                \E x \in attendanceTable' :
                   /\ SameKey(x, r)
                   /\ x.status = r.status /\ x.created_by = r.created_by
          /\ \A x \in attendanceTable :
                (~\E r \in ev'.records : SameKey(x, r)) => x \in attendanceTable'
          /\ \A x \in attendanceTable' :
                \/ \E r \in ev'.records : SameKey(x, r)
                \/ x \in attendanceTable
          /\ \A x, y \in attendanceTable' : SameKey(x, y) => x = y]_vars

\* the save of one staff member has been applied while the save of the other,
\* for the same student and date with another status, is still in flight, and
\* the row saved earlier for another date is still there
C24_Witness ==
    /\ ev.op = "save" /\ ev.ok
    /\ \E q \in saves : \E r \in q.records, w \in ev.records :
          /\ q.date = ev.date
          /\ SameKey(r, w)
          /\ r.created_by # w.created_by
          /\ r.status # w.status
    /\ \E x \in attendanceTable : x.date # ev.date

\* C26: every record a save writes for a date carries a status that was
\* loaded from the store for that date or set by the user while that date was
\* selected.  In these runs LATE is stored at the start for the day before
\* the start only and no button sets it, so no save, in flight or applied,
\* carries LATE for another date.
C26_StatusOfItsDate ==
    /\ \A q \in saves : \A r \in q.records :
          r.status = LATE => r.date = StartDay - 1
    /\ \A x \in attendanceTable : x.status = LATE => x.date = StartDay - 1

\* the first save applied has written LATE for the start day: the status
\* loaded for the day before it, still in memory when the date was changed
C26_StaleStatusSaved ==
    /\ ev.op = "save" /\ ev.ok
    /\ clock = 1
    /\ \E r \in ev.records : r.status = LATE /\ r.date = StartDay
    /\ \E x \in attendanceTable : x.status = LATE /\ x.date = StartDay

\* C25: when two saves of the same meeting run at the same time, whatever the
\* order of their delete and insert calls, the table holds at most one record
\* per (meeting, student), and once both have ended the records stored for
\* the meeting are the set of one of them: the set of the save that ended
\* last, when it ended with success after its delete had gone through.
C25_OneEditorsSet ==
    /\ \A x, y \in meetingAttendance :
          (x.meeting_id = y.meeting_id /\ x.student_id = y.student_id) => x = y
    /\ (ev.op = "msave" /\ ev.ok /\ ev.deleted /\ saves = {}) =>
          MeetingRowsOf(meetingAttendance, ev.meeting) = ev.records

\* a save of s2 alone, clicked while nothing was stored for the meeting, has
\* ended with success, its delete gone through, and the meeting holds records
\* of s1 and of s2: the insert of the other save came after that delete
C25_BothSetsStored ==
    /\ ev.op = "msave" /\ ev.ok /\ ev.deleted /\ ev.before = {}
    /\ saves = {}
    /\ {r.student_id : r \in ev.records} = {"s2"}
    /\ {x.student_id : x \in MeetingRowsOf(meetingAttendance, ev.meeting)}
           = {"s1", "s2"}

\* C27: in the meeting sheet, whenever no load is in flight, activeMeeting is
\* null or a meeting of the classroom shown whose date is the selected date,
\* whatever the order in which the lookup of the initial meeting and the
\* lookups by date are answered.
C27_ActiveMeetingOfDate ==
    (OnMeetingSheet /\ loads = {}) =>
        \/ activeMeeting = NoMeeting
        \/ /\ activeMeeting \in meetings
           /\ activeMeeting.classroom_id = ClassroomId
           /\ activeMeeting.date = selectedDate

\* with no load in flight the sheet shows the day before the start with the
\* meeting of the start day active, and a save is in flight against it
C27_SaveAgainstOtherDate ==
    /\ OnMeetingSheet /\ loads = {} /\ ~loading
    /\ selectedDate = StartDay - 1
    /\ activeMeeting.date = StartDay
    /\ \E q \in saves : q.live /\ q.meeting_id = activeMeeting.id

C29_OnlySaveWrites ==
    [][/\ \A id \in Students, status \in StatusButtons :
             setStatus(id, status) =>
                 /\ attendance'[id] = status
                 /\ \A s \in Students \ {id} : attendance'[s] = attendance[s]
                 /\ UNCHANGED <<students, notes, filledByInfo,
                                datesWithAttendance, attendanceTable>>
       /\ markAllPresent =>
              UNCHANGED <<students, notes, filledByInfo, datesWithAttendance,
                          attendanceTable>>
       /\ attendanceTable' # attendanceTable =>
              /\ ev'.op = "save" /\ ev'.ok
              /\ attendanceTable' = Upsert(attendanceTable, ev'.records, clock)
       /\ (\/ \E l \in loads, ok \in BOOLEAN :
                 StudentsResponse(l, ok) \/ AttendanceResponse(l, ok)
           \/ \E m \in dateQueries, ok \in BOOLEAN : DatesResponse(m, ok)) =>
              UNCHANGED attendanceTable]_vars

\* the entries loaded for the date have been changed in memory, one student
\* PRESENT and the other ABSENT, with no call in flight, and the rows stored
\* for the date are not those of the in-memory set
C29_Witness ==
    /\ OnSheet /\ ~loading
    /\ loads = {} /\ dateQueries = {} /\ saves = {}
    /\ students = Students
    /\ attendance["s1"] = PRESENT /\ attendance["s2"] = ABSENT
    /\ selectedDate \in datesWithAttendance
    /\ \A x \in RowsOf(attendanceTable, selectedDate) : x.status = PRESENT
    /\ Cardinality(RowsOf(attendanceTable, selectedDate)) = 2

\* C30: on the daily sheet with no marked-dates query in flight, every date
\* of the marked-dates set has a row stored for the classroom, and every date
\* of the displayed calendar month (the dates of its day cells) that has one
\* is in the set; and after a successful save for a date, answered to the
\* sheet, that date is in the set.
C30_MarkedDatesOfMonth ==
    LET stored == {x.date : x \in {y \in attendanceTable :
                                      y.classroom_id = ClassroomId}}
        cells == {LocalMidnightToIso(d) :
                     d \in FirstDayOf(calendarMonth)..LastDayOf(calendarMonth)}
    IN  /\ (OnSheet /\ dateQueries = {}) =>
               /\ datesWithAttendance \subseteq stored
               /\ (stored \cap cells) \subseteq datesWithAttendance
        /\ (OnSheet /\ ev.op = "save" /\ ev.ok /\ ev.live) =>
               ev.date \in datesWithAttendance

\* no query is in flight and no save either, the date shown is stored and is
\* a date of the displayed month, and the marked-dates set is empty
C30_MarkedDateMissing ==
    /\ OnSheet
    /\ dateQueries = {} /\ saves = {}
    /\ tz = "west"
    /\ MonthOf(selectedDate) = calendarMonth
    /\ RowsOf(attendanceTable, selectedDate) # {}
    /\ datesWithAttendance = {}

====
